---- MODULE Spec2Model ----
(***************************************************************************)
(* Conversation/session core of the Lexi backend: the message and          *)
(* conversation stores (historyService), the turn orchestrator             *)
(* (chatService.chatWithLexi behind the chat and file controllers), the    *)
(* engagement statistics and the retention sweep (getKidStats,             *)
(* deleteOlderThan, utils/time.js).                                        *)
(*                                                                         *)
(* Time is counted in minutes since 1970-01-01T00:00Z.  Every boundary the *)
(* code compares a timestamp with is a whole minute (the timezone offset   *)
(* is given in minutes), so flooring millisecond timestamps to minutes     *)
(* preserves every comparison the code makes.                              *)
(***************************************************************************)
EXTENDS Integers, Sequences, FiniteSets, TLC

VARIABLES now, messages, conversations, nextConv, calls, nreq, ret,
          users, sec, replaced,
          dynamicAudioRouter, streams, resets, issued, spent, files, fileDocs, uploads

vars == <<now, messages, conversations, nextConv, calls, nreq, ret,
          users, sec, replaced,
          dynamicAudioRouter, streams, resets, issued, spent, files, fileDocs, uploads>>

\* The variables of the accounts and those of the chat stores
authVars == <<users, sec, replaced>>
\* The variables of the audio streams, the password resets and the uploads
streamVars == <<dynamicAudioRouter, streams>>
resetVars == <<resets, issued, spent>>
fileVars == <<files, fileDocs, uploads>>
serviceVars == <<streamVars, resetVars, fileVars>>
chatVars == <<now, messages, conversations, nextConv, calls, nreq>>

(***************************************************************************)
(* Program constants                                                       *)
(***************************************************************************)
MinutesPerDay == 1440
DaysPerWeek == 7
MaxInputLen == 4096
WindowSize == 20
MinChatSize == 5
RetentionDays == 15
SummaryPromptLen == 56

(***************************************************************************)
(* Bounds of the model                                                     *)
(***************************************************************************)
MaxConvs == 1
MaxRequests == 2
MaxJumps == 1
MaxTicks == 1
MaxStoreConvs == 1
MaxStoreMsgs == 2
MaxStoreTicks == 1
MaxHistory == 22
MaxExtraMsgs == 1
MaxTimeSteps == 336
MaxSeconds == 1
MaxNewUsers == 2

Procs == {1, 2}
Kids == {"k1", "k2"}
\* The ids a request may name: one of them is never generated.
ConvIds == 1..(MaxConvs + 1)
\* The ids a store client passes: one of them is never generated.
StoreConvIds == 1..(MaxStoreConvs + 1)
Offsets == {-120, 0, 300}
\* Wednesday 2024-06-12 08:00 UTC (10:00 local time at UTC+2)
Now0 == 28636320
JumpDays == 16

(***************************************************************************)
(* JavaScript values that reach the core as texts                          *)
(***************************************************************************)
Str(n) == [type |-> "string", len |-> n]
Undefined == [type |-> "undefined", len |-> 0]
Null == [type |-> "null", len |-> 0]
IsString(v) == v.type = "string"

Min(a, b) == IF a < b THEN a ELSE b
Max(a, b) == IF a > b THEN a ELSE b
Range(s) == {s[i] : i \in DOMAIN s}

(***************************************************************************)
(* utils/time.js.  moment().utc() is the argument nowUTC; startOf('day')   *)
(* and startOf('isoWeek') act on a UTC-mode moment, so a day is always     *)
(* 1440 minutes.  1970-01-01 was a Thursday (ISO weekday index 3, Monday   *)
(* being 0).                                                               *)
(***************************************************************************)
startOfDay(t) == (t \div MinutesPerDay) * MinutesPerDay

isoWeekday(t) == ((t \div MinutesPerDay) + 3) % DaysPerWeek

\* Mutant of startOfIsoWeek: startOf('week'), whose weeks begin on Sunday.
startOfIsoWeek_sunday(t) == startOfDay(t) - ((isoWeekday(t) + 1) % DaysPerWeek) * MinutesPerDay

\* startOf('isoWeek'): 00:00 of the Monday of the week of t
startOfIsoWeek(t) == startOfDay(t) - isoWeekday(t) * MinutesPerDay

getStartOfCurrentWeekUTC(nowUTC, userTimezoneOffset) ==
    LET nowLocal == nowUTC - userTimezoneOffset
        startOfWeekLocal == startOfIsoWeek(nowLocal)
    IN  startOfWeekLocal + userTimezoneOffset

getStartOfPreviousWeekUTC(nowUTC, userTimezoneOffset) ==
    LET nowLocal == nowUTC - userTimezoneOffset
        startOfWeekLocal == startOfIsoWeek(nowLocal)
        startOfWeekUTC == startOfWeekLocal + userTimezoneOffset
    IN  startOfWeekUTC - DaysPerWeek * MinutesPerDay

getStartOfTodayUTC(nowUTC, userTimezoneOffset) ==
    LET nowLocal == nowUTC - userTimezoneOffset
        startOfTodayLocal == startOfDay(nowLocal)
    IN  startOfTodayLocal + userTimezoneOffset

getStartOfYesterdayUTC(nowUTC, userTimezoneOffset) ==
    LET nowLocal == nowUTC - userTimezoneOffset
        startOfTodayLocal == startOfDay(nowLocal)
        startOfTodayUTC == startOfTodayLocal + userTimezoneOffset
    IN  startOfTodayUTC - 1 * MinutesPerDay

\* Mutant of getDaysBeforeUTC: the days are added, not subtracted.
getDaysBeforeUTC_added(nowUTC, userTimezoneOffset, daysBefore) ==
    getStartOfTodayUTC(nowUTC, userTimezoneOffset) + daysBefore * MinutesPerDay

getDaysBeforeUTC(nowUTC, userTimezoneOffset, daysBefore) ==
    LET nowLocal == nowUTC - userTimezoneOffset
        startOfTodayLocal == startOfDay(nowLocal)
        startOfTodayUTC == startOfTodayLocal + userTimezoneOffset
    IN  startOfTodayUTC - daysBefore * MinutesPerDay

(***************************************************************************)
(* Message store (messageModel, historyService.newMessage)                 *)
(*                                                                         *)
(* messages is the collection: the i-th document created has _id i.  No    *)
(* code path deletes a message document.                                   *)
(***************************************************************************)
Roles == {"user", "assistant"}

\* Mutant of messageSchemaValid: the role without its enum.
messageSchemaValid_anyRole(role, content) ==
    /\ role # ""
    /\ \A i \in DOMAIN content :
          /\ content[i].type # ""
          /\ IsString(content[i].text)
          /\ content[i].text.len > 0

\* messageSchema validation: role is required and one of the enum values,
\* every content block needs a type and a non-empty string as text.
messageSchemaValid(role, content) ==
    /\ role \in Roles
    /\ \A i \in DOMAIN content :
          /\ content[i].type # ""
          /\ IsString(content[i].text)
          /\ content[i].text.len > 0

\* error.message of the ValidationError of messageModel.create, down to the
\* first path it names.
validationError(role, content) ==
    IF role \notin Roles THEN "Message validation failed: role"
    ELSE "Message validation failed: content.0.text"

\* The document historyService.newMessage hands to messageModel.create.
newMessageDoc(role, input, conversationId, createdAt) ==
    [role |-> role,
     content |-> <<[type |-> "text", text |-> input]>>,
     conversation |-> conversationId,
     created_at |-> createdAt]

\* Mutant of createMessage: the _id is handed out but the document is not
\* written.
createMessage_lost(msgs, doc) == msgs

\* messageModel.create of a valid document: the collection afterwards.
createMessage(msgs, doc) == Append(msgs, doc)

(***************************************************************************)
(* Conversation store (conversationModel, historyService)                  *)
(***************************************************************************)
newConversationDoc(userId, createdAt) ==
    [messages |-> <<>>, owner |-> userId, created_at |-> createdAt]

\* Mutant of addToSet: $push, which appends without looking.
addToSet_push(list, messageId) == Append(list, messageId)

\* Mutant of addToSet: the array is written back as the one value ($set),
\* which loses what was appended before.
addToSet_set(list, messageId) == <<messageId>>

\* $addToSet: the array with the value appended unless it is present.
addToSet(list, messageId) ==
    IF messageId \in Range(list) THEN list ELSE Append(list, messageId)

\* The sequences that list the ids of S once each in non-decreasing
\* created_at order (the order of documents with equal keys is unspecified).
RECURSIVE SortedByCreatedAt(_, _)
SortedByCreatedAt(msgs, S) ==
    IF S = {} THEN {<<>>}
    ELSE LET firsts == {m \in S : \A o \in S : msgs[m].created_at <= msgs[o].created_at}
         IN  UNION {{<<m>> \o rest : rest \in SortedByCreatedAt(msgs, S \ {m})} : m \in firsts}

\* Mutant of populateMessages: populate without the sort option, which
\* keeps the order of the stored array.
populateMessages_unsorted(msgs, list) ==
    {SelectSeq(list, LAMBDA m : m \in DOMAIN msgs)}

\* populate({path: 'messages', options: {sort: {created_at: 1}}}): the
\* referenced documents that exist, fetched by one sorted query.
populateMessages(msgs, list) ==
    SortedByCreatedAt(msgs, {m \in Range(list) : m \in DOMAIN msgs})

\* Mutant of updatedConversations: the update without the _id filter, which
\* reaches every conversation.
updatedConversations_all(convs, conversationId, messageId) ==
    [c \in DOMAIN convs |-> [convs[c] EXCEPT !.messages = addToSet(@, messageId)]]

\* findByIdAndUpdate without upsert: the collection after the update.
updatedConversations(convs, conversationId, messageId) ==
    IF conversationId \in DOMAIN convs
    THEN [convs EXCEPT ![conversationId].messages = addToSet(@, messageId)]
    ELSE convs

\* What historyService.updateConversation resolves to: null when no
\* document matches, otherwise the updated document with messages populated.
updateConversationResults(msgs, convs, conversationId, messageId) ==
    IF conversationId \in DOMAIN convs
    THEN {[kind |-> "conversation", id |-> conversationId, messages |-> list] :
            list \in populateMessages(msgs,
                        updatedConversations(convs, conversationId, messageId)[conversationId].messages)}
    ELSE {[kind |-> "null", id |-> conversationId, messages |-> <<>>]}

(***************************************************************************)
(* Statistics and retention (historyService.getKidStats, deleteOlderThan)  *)
(***************************************************************************)
\* Mutant of isCountedChat: $gte in place of $gt.
isCountedChat_gte(conv) == Len(conv.messages) >= MinChatSize

\* $expr: {$gt: [{$size: '$messages'}, 5]}
isCountedChat(conv) == Len(conv.messages) > MinChatSize

currentWeekChats(convs, kidId, t, off) ==
    {c \in DOMAIN convs :
        /\ convs[c].owner = kidId
        /\ convs[c].created_at >= getStartOfCurrentWeekUTC(t, off)
        /\ isCountedChat(convs[c])}

\* Mutant of previousWeekChats: the range without its upper end.
previousWeekChats_open(convs, kidId, t, off) ==
    {c \in DOMAIN convs :
        /\ convs[c].owner = kidId
        /\ convs[c].created_at >= getStartOfPreviousWeekUTC(t, off)
        /\ isCountedChat(convs[c])}

\* find: created_at in [previousWeekStart, currentWeekStart)
previousWeekChats(convs, kidId, t, off) ==
    {c \in DOMAIN convs :
        /\ convs[c].owner = kidId
        /\ convs[c].created_at >= getStartOfPreviousWeekUTC(t, off)
        /\ convs[c].created_at < getStartOfCurrentWeekUTC(t, off)
        /\ isCountedChat(convs[c])}

todayChats(convs, kidId, t, off) ==
    {c \in DOMAIN convs :
        /\ convs[c].owner = kidId
        /\ convs[c].created_at >= getStartOfTodayUTC(t, off)
        /\ isCountedChat(convs[c])}

yesterdayChats(convs, kidId, t, off) ==
    {c \in DOMAIN convs :
        /\ convs[c].owner = kidId
        /\ convs[c].created_at >= getStartOfYesterdayUTC(t, off)
        /\ convs[c].created_at < getStartOfTodayUTC(t, off)
        /\ isCountedChat(convs[c])}

getKidStats(convs, kidId, t, off) ==
    [currentWeek |-> currentWeekChats(convs, kidId, t, off),
     previousWeek |-> previousWeekChats(convs, kidId, t, off),
     today |-> todayChats(convs, kidId, t, off),
     yesterday |-> yesterdayChats(convs, kidId, t, off),
     currentWeekStats |-> Cardinality(currentWeekChats(convs, kidId, t, off)),
     previousWeekStats |-> Cardinality(previousWeekChats(convs, kidId, t, off)),
     todayStats |-> Cardinality(todayChats(convs, kidId, t, off)),
     yesterdayStats |-> Cardinality(yesterdayChats(convs, kidId, t, off))]

\* Mutant of isSwept: $lte in place of $lt.
isSwept_lte(conv, kidId, t, off, daysBefore) ==
    /\ conv.owner = kidId
    /\ conv.created_at <= getDaysBeforeUTC(t, off, daysBefore)

\* The filter of deleteMany in deleteOlderThan.
isSwept(conv, kidId, t, off, daysBefore) ==
    /\ conv.owner = kidId
    /\ conv.created_at < getDaysBeforeUTC(t, off, daysBefore)

\* The conversation collection after deleteOlderThan.
deleteOlderThan(convs, kidId, t, off, daysBefore) ==
    LET kept == {c \in DOMAIN convs : ~isSwept(convs[c], kidId, t, off, daysBefore)}
    IN  [c \in kept |-> convs[c]]

(***************************************************************************)
(* Accounts (userModel, utils/jwt.js)                                      *)
(*                                                                         *)
(* A password is kept as its bcrypt hash; an account made by the Google    *)
(* sign-in has none.  A JSON web token is determined by its payload, the   *)
(* secret it is signed with and the second it is issued in (iat).          *)
(***************************************************************************)
Text(s) == [type |-> "string", text |-> s]
Missing == [type |-> "undefined", text |-> ""]

\* bcrypt.hash in userSchema.pre('save')
Hash(p) == [type |-> "bcrypt", of |-> p]
NoHash == [type |-> "undefined", of |-> ""]

\* userSchema.methods.comparePassword: bcrypt.compare rejects when either
\* argument is no string, and resolves to whether the two match otherwise.
comparePassword(candidate, password) ==
    IF candidate.type # "string" \/ password.type # "bcrypt" THEN "rejects"
    ELSE IF password.of = candidate.text THEN "true" ELSE "false"

\* String(n), the cast of the years of a kid to the String of the schema
Years(n) == [type |-> "string", digits |-> n]
NoYears == [type |-> "null", digits |-> 0]

\* Date.now() in seconds, the iat of a token signed now
issuedAt(t, s) == t * 60 + s

NoToken == [userId |-> "", iat |-> 0, secret |-> "null"]

jwtSign(userId, secret, iat) == [userId |-> userId, iat |-> iat, secret |-> secret]

generateTokens(userId, iat) ==
    [accessToken |-> jwtSign(userId, "JWT_SECRET", iat),
     refreshToken |-> jwtSign(userId, "JWT_REFRESH_SECRET", iat)]

\* jwt.verify(token, JWT_REFRESH_SECRET) of a token that has not expired:
\* whether it returns the payload (it throws otherwise)
verifyRefreshToken(token) == token.secret = "JWT_REFRESH_SECRET"

\* crypto.randomBytes(32).toString('hex'): the n-th token drawn differs
\* from every token drawn before; a user that asked for none holds none.
randomToken(n) == [type |-> "string", hex |-> n]
NoResetToken == [type |-> "undefined", hex |-> 0]

userDoc(email, password, isEmailVerified, role, googleId, years, kids) ==
    [email |-> email, password |-> password, isEmailVerified |-> isEmailVerified,
     role |-> role, googleId |-> googleId, years |-> years, kids |-> kids,
     refreshToken |-> NoToken,
     passwordResetToken |-> NoResetToken, passwordResetExpires |-> 0]

\* Two parents, the first verified and with two kids, the second not yet
\* verified, and the two kids.
InitialUsers ==
    [u \in {"p1", "p2", "k1", "k2"} |->
        CASE u = "p1" -> userDoc("p1@x.yz", Hash("secret1"), TRUE, "parent", "", NoYears, <<"k1", "k2">>)
          [] u = "p2" -> userDoc("p2@x.yz", Hash("secret2"), FALSE, "parent", "", NoYears, <<>>)
          [] u = "k1" -> userDoc("k1@x.yz", Hash("kidpw1"), TRUE, "kid", "", Years(8), <<>>)
          [] u = "k2" -> userDoc("k2@x.yz", Hash("kidpw2"), TRUE, "kid", "", Years(9), <<>>)]

InitAccounts ==
    /\ users = InitialUsers
    /\ sec = 0
    /\ replaced = {}

\* No stream endpoint was generated (let dynamicAudioRouter = null), no
\* reset of a password is under way, no file is stored.
NoReset == [pc |-> "idle", token |-> NoResetToken, password |-> "", repeatPassword |-> "",
            user |-> "", status |-> 0, message |-> "", before |-> NoHash]
NoUpload == [pc |-> "idle", user |-> "", status |-> 0, message |-> "", seen |-> 0,
             file |-> 0]
Uploaders == {"p1"}

InitServices ==
    /\ dynamicAudioRouter = Null
    /\ streams = <<>>
    /\ resets = [p \in Procs |-> NoReset]
    /\ issued = 0
    /\ spent = <<>>
    /\ files = [u \in Uploaders |-> <<>>]
    /\ fileDocs = 0
    /\ uploads = [p \in Procs |-> NoUpload]

(***************************************************************************)
(* State shared by the specifications                                      *)
(*   now            the clock                                              *)
(*   messages       the Message collection                                 *)
(*   conversations  the Conversation collection (by _id)                   *)
(*   nextConv       the next conversation _id to be generated              *)
(*   calls          the request each worker is serving                     *)
(*   nreq           chat requests accepted so far                          *)
(*   ret            what the last store call or endpoint returned          *)
(*   users          the User collection (by _id)                           *)
(*   sec            the seconds of the clock within the minute             *)
(*   replaced       the refresh tokens that were stored for a user and     *)
(*                  have since been overwritten or cleared                 *)
(***************************************************************************)
NoCall ==
    [pc |-> "idle", route |-> "none", conversationId |-> 0,
     input |-> Undefined, userMsg |-> 0, updated |-> <<>>, context |-> <<>>,
     reply |-> [role |-> "", content |-> Undefined], asstMsg |-> 0, added |-> 0,
     alive |-> FALSE, listed |-> FALSE, outcome |-> "", error |-> "",
     status |-> 0, message |-> "", details |-> "", invoked |-> 0]

NoRet == [op |-> "none"]

InitEmpty ==
    /\ now = Now0
    /\ messages = <<>>
    /\ conversations = <<>>
    /\ nextConv = 1
    /\ calls = [p \in Procs |-> NoCall]
    /\ nreq = 0
    /\ ret = NoRet
    /\ InitAccounts
    /\ InitServices

(***************************************************************************)
(* SpecStore: the historyService functions called directly, in any order   *)
(* and with any arguments, by a client of the two stores.                  *)
(***************************************************************************)
StoreNewConversation(userId) ==
    /\ nextConv <= MaxStoreConvs
    /\ conversations' = [c \in DOMAIN conversations \cup {nextConv} |->
                            IF c = nextConv THEN newConversationDoc(userId, now)
                            ELSE conversations[c]]
    /\ nextConv' = nextConv + 1
    /\ ret' = [op |-> "newConversation", id |-> nextConv]
    /\ UNCHANGED <<now, messages, calls, nreq, authVars, serviceVars>>

StoreNewMessage(role, input, conversationId) ==
    /\ Len(messages) < MaxStoreMsgs
    /\ LET doc == newMessageDoc(role, input, conversationId, now)
       IN  IF messageSchemaValid(doc.role, doc.content)
           THEN /\ messages' = createMessage(messages, doc)
                /\ ret' = [op |-> "newMessage", id |-> Len(messages) + 1]
           ELSE /\ messages' = messages
                /\ ret' = [op |-> "newMessage", error |-> "ValidationError"]
    /\ UNCHANGED <<now, conversations, nextConv, calls, nreq, authVars, serviceVars>>

StoreUpdateConversation(conversationId, messageId) ==
    /\ conversations' = updatedConversations(conversations, conversationId, messageId)
    /\ \E r \in updateConversationResults(messages, conversations, conversationId, messageId) :
          ret' = [op |-> "updateConversation",
                  conversationId |-> conversationId,
                  messageId |-> messageId,
                  existed |-> conversationId \in DOMAIN conversations,
                  already |-> /\ conversationId \in DOMAIN conversations
                              /\ messageId \in Range(conversations[conversationId].messages),
                  result |-> r]
    /\ UNCHANGED <<now, messages, nextConv, calls, nreq, authVars, serviceVars>>

StoreTick ==
    /\ now < Now0 + MaxStoreTicks
    /\ now' = now + 1
    /\ UNCHANGED <<messages, conversations, nextConv, calls, nreq, ret, authVars, serviceVars>>

NextStore ==
    \/ StoreNewConversation("k1")
    \/ \E role \in {"user", "system"} : StoreNewMessage(role, Str(1), 1)
    \/ \E c \in StoreConvIds, m \in DOMAIN messages : StoreUpdateConversation(c, m)
    \/ StoreTick

SpecStore == InitEmpty /\ [][NextStore]_vars

(***************************************************************************)
(* Chat and file controllers: what each route checks before chatWithLexi   *)
(***************************************************************************)
Routes == {"text", "voice", "buffer", "uri", "process"}

\* POST /chat/text: userInput
textRejects(v) == (~IsString(v) \/ v.len = 0) \/ v.len > MaxInputLen

\* POST /chat/voice: the transcription.  The length test reads
\* typeof textUserInput.length > 1000, the string 'number' compared with
\* 1000, which is false for every input.
voiceRejects(v) == (~IsString(v) \/ v.len = 0) \/ FALSE

\* POST /chat/buffer and POST /chat/uri: the transcription
bufferRejects(v) == ~IsString(v) \/ v.len = 0

uriRejects(v) == ~IsString(v) \/ v.len = 0

\* POST /files/process in a chat mode: aiInput = `${prompts[mode]} ${text}`
aiInput(v) == Str(SummaryPromptLen + 1 + v.len)

processRejects(v) == (~IsString(v) \/ v.len = 0) \/ aiInput(v).len > MaxInputLen

controllerRejects(route, v) ==
    CASE route = "text" -> textRejects(v)
      [] route = "voice" -> voiceRejects(v)
      [] route = "buffer" -> bufferRejects(v)
      [] route = "uri" -> uriRejects(v)
      [] route = "process" -> processRejects(v)

\* The text the route hands to chatWithLexi
chatInput(route, v) == IF route = "process" THEN aiInput(v) ELSE v

rejectMessage(route, v) ==
    IF route = "process"
    THEN (IF ~IsString(v) \/ v.len = 0 THEN "Invalid file content" ELSE "File content is too long.")
    ELSE IF ~IsString(v) \/ v.len = 0
         THEN (IF route = "voice" THEN "Invalid voice content." ELSE "Bad Request")
         ELSE "User input is too long."

\* What a client, the transcription or the text extraction may deliver
Inputs ==
    {Undefined, Str(0), Str(MaxInputLen - SummaryPromptLen - 1), Str(MaxInputLen),
     Str(MaxInputLen + 1)}

(***************************************************************************)
(* chatService.chatWithLexi                                                *)
(***************************************************************************)
\* message => ({role, content: [{type: content[0].type, text: content[0].text}]})
toTurn(msg) ==
    [role |-> msg.role,
     content |-> <<[type |-> msg.content[1].type, text |-> msg.content[1].text]>>]

\* Mutant of sliceLast: slice(0, n), the first n elements.
sliceLast_head(seq, n) == SubSeq(seq, 1, Min(n, Len(seq)))

\* Array.prototype.slice(-n)
sliceLast(seq, n) == SubSeq(seq, Max(Len(seq) - n, 0) + 1, Len(seq))

\* updatedConversation.messages.map(...) followed by slice(-20)
buildContext(msgs, list) ==
    sliceLast([i \in DOMAIN list |-> toTurn(msgs[list[i]])], WindowSize)

\* What the completion may hold as choices[0].message.content
ReplyContents == {Str(2), Str(0), Null}

\* error.message of a provider failure (it may be empty)
ProviderDetails == {"provider error", ""}

ErrorMessage == "Error during AI response generation."

\* details: error.message || 'OpenAI API error.'
errorDetails(msg) == IF msg = "" THEN "OpenAI API error." ELSE msg

IsListed(convs, conversationId, messageId) ==
    /\ conversationId \in DOMAIN convs
    /\ messageId \in Range(convs[conversationId].messages)

\* The catch block of chatWithLexi: the call ends with HttpError 500.
Failed(call, convs, cause, detail) ==
    [NoCall EXCEPT !.pc = "done", !.route = call.route,
                   !.conversationId = call.conversationId,
                   !.userMsg = call.userMsg, !.asstMsg = call.asstMsg,
                   !.added = call.added, !.outcome = cause, !.error = detail,
                   !.invoked = call.invoked,
                   !.status = 500, !.message = ErrorMessage,
                   !.details = errorDetails(detail),
                   !.alive = call.conversationId \in DOMAIN convs,
                   !.listed = IsListed(convs, call.conversationId, call.userMsg)]

\* A request arrives at one of the five routes.  It names a conversation id
\* that was handed out by /chat/start, or one that no conversation has.
Request(p, route, conversationId, v) ==
    /\ calls[p].pc \in {"idle", "done"}
    /\ conversationId < nextConv \/ conversationId = MaxConvs + 1
    /\ nreq < MaxRequests
    /\ IF controllerRejects(route, v)
       THEN /\ calls' = [calls EXCEPT ![p] =
                  [NoCall EXCEPT !.pc = "done", !.route = route,
                                 !.outcome = "rejected", !.status = 400,
                                 !.message = rejectMessage(route, v)]]
            /\ nreq' = nreq
       ELSE /\ calls' = [calls EXCEPT ![p] =
                  [NoCall EXCEPT !.pc = "newUserMessage", !.route = route,
                                 !.conversationId = conversationId,
                                 !.input = chatInput(route, v)]]
            /\ nreq' = nreq + 1
    /\ UNCHANGED <<now, messages, conversations, nextConv, ret, authVars, serviceVars>>

\* await historyService.newMessage('user', textUserInput, conversationId)
NewUserMessage(p) ==
    /\ calls[p].pc = "newUserMessage"
    /\ LET call == calls[p]
           doc == newMessageDoc("user", call.input, call.conversationId, now)
       IN  IF messageSchemaValid(doc.role, doc.content)
           THEN /\ messages' = createMessage(messages, doc)
                /\ calls' = [calls EXCEPT ![p].pc = "appendUser",
                                          ![p].userMsg = Len(messages) + 1]
           ELSE /\ messages' = messages
                /\ calls' = [calls EXCEPT ![p] =
                                Failed(call, conversations, "validation",
                                       validationError(doc.role, doc.content))]
    /\ UNCHANGED <<now, conversations, nextConv, nreq, ret, authVars, serviceVars>>

\* await historyService.updateConversation(conversationId, newUserMessage._id),
\* then the map and the slice, up to the call of the language model.
AppendUser(p) ==
    /\ calls[p].pc = "appendUser"
    /\ LET call == calls[p]
           convs == updatedConversations(conversations, call.conversationId, call.userMsg)
       IN  /\ conversations' = convs
           /\ \E r \in updateConversationResults(messages, conversations,
                                                 call.conversationId, call.userMsg) :
                 IF r.kind = "null"
                 THEN calls' = [calls EXCEPT ![p] =
                         Failed(call, convs, "nullConversation",
                                "Cannot read properties of null (reading 'messages')")]
                 ELSE calls' = [calls EXCEPT
                         ![p].pc = "callModel",
                         ![p].invoked = call.invoked + 1,
                         ![p].updated = r.messages,
                         ![p].context = buildContext(messages, r.messages),
                         ![p].added = call.added
                                      + Len(convs[call.conversationId].messages)
                                      - Len(conversations[call.conversationId].messages)]
    /\ UNCHANGED <<now, messages, nextConv, nreq, ret, authVars, serviceVars>>

\* await openai.chat.completions.create(...) resolves.
ModelReplies(p, content) ==
    /\ calls[p].pc = "callModel"
    /\ calls' = [calls EXCEPT ![p].pc = "newAssistantMessage",
                              ![p].reply = [role |-> "assistant", content |-> content]]
    /\ UNCHANGED <<now, messages, conversations, nextConv, nreq, ret, authVars, serviceVars>>

\* What the completion may hold as choices[0].message.role
ReplyRoles == {"assistant", "system", ""}

\* await openai.chat.completions.create(...) resolves, the role of the
\* message being whatever the provider sent.
ModelRepliesAs(p, role, content) ==
    /\ calls[p].pc = "callModel"
    /\ calls' = [calls EXCEPT ![p].pc = "newAssistantMessage",
                              ![p].reply = [role |-> role, content |-> content]]
    /\ UNCHANGED <<now, messages, conversations, nextConv, nreq, ret, authVars, serviceVars>>

\* Mutant of ModelFails: the catch block rolls the user turn back.
ModelFails_rollback(p, detail) ==
    /\ calls[p].pc = "callModel"
    /\ conversations' =
          [c \in DOMAIN conversations |->
              IF c = calls[p].conversationId
              THEN [conversations[c] EXCEPT
                      !.messages = SelectSeq(@, LAMBDA m : m # calls[p].userMsg)]
              ELSE conversations[c]]
    /\ calls' = [calls EXCEPT ![p] = Failed(calls[p], conversations', "modelError", detail)]
    /\ UNCHANGED <<now, messages, nextConv, nreq, ret, authVars, serviceVars>>

\* Mutant of ModelFails: the completion is asked for a second time before
\* the call gives up.
ModelFails_retry(p, detail) ==
    /\ calls[p].pc = "callModel"
    /\ calls' = [calls EXCEPT ![p] =
                    IF calls[p].invoked < 2
                    THEN [calls[p] EXCEPT !.invoked = @ + 1]
                    ELSE Failed(calls[p], conversations, "modelError", detail)]
    /\ UNCHANGED <<now, messages, conversations, nextConv, nreq, ret, authVars, serviceVars>>

\* await openai.chat.completions.create(...) rejects.
ModelFails(p, detail) ==
    /\ calls[p].pc = "callModel"
    /\ calls' = [calls EXCEPT ![p] = Failed(calls[p], conversations, "modelError", detail)]
    /\ UNCHANGED <<now, messages, conversations, nextConv, nreq, ret, authVars, serviceVars>>

\* await historyService.newMessage(response.message.role, response.message.content, ...)
NewAssistantMessage(p) ==
    /\ calls[p].pc = "newAssistantMessage"
    /\ LET call == calls[p]
           doc == newMessageDoc(call.reply.role, call.reply.content, call.conversationId, now)
       IN  IF messageSchemaValid(doc.role, doc.content)
           THEN /\ messages' = createMessage(messages, doc)
                /\ calls' = [calls EXCEPT ![p].pc = "appendAssistant",
                                          ![p].asstMsg = Len(messages) + 1]
           ELSE /\ messages' = messages
                /\ calls' = [calls EXCEPT ![p] =
                                Failed(call, conversations, "validation",
                                       validationError(doc.role, doc.content))]
    /\ UNCHANGED <<now, conversations, nextConv, nreq, ret, authVars, serviceVars>>

\* await historyService.updateConversation(conversationId, newAssistantMessage._id);
\* the result is not looked at, and the response is returned.
AppendAssistant(p) ==
    /\ calls[p].pc = "appendAssistant"
    /\ LET call == calls[p]
           convs == updatedConversations(conversations, call.conversationId, call.asstMsg)
           grown == IF call.conversationId \in DOMAIN conversations
                    THEN Len(convs[call.conversationId].messages)
                         - Len(conversations[call.conversationId].messages)
                    ELSE 0
       IN  /\ conversations' = convs
           /\ calls' = [calls EXCEPT ![p] =
                  [NoCall EXCEPT !.pc = "done", !.route = call.route,
                                 !.conversationId = call.conversationId,
                                 !.userMsg = call.userMsg, !.asstMsg = call.asstMsg,
                                 !.reply = call.reply, !.invoked = call.invoked,
                                 !.added = call.added + grown, !.outcome = "ok",
                                 !.status = 200,
                                 !.alive = call.conversationId \in DOMAIN convs,
                                 !.listed = IsListed(convs, call.conversationId, call.userMsg)]]
    /\ UNCHANGED <<now, messages, nextConv, nreq, ret, authVars, serviceVars>>

\* Mutant of StorageFails: the failure of the first append is swallowed and
\* the call goes on to the model with the user message unlisted.
StorageFails_swallowed(p) ==
    /\ calls[p].pc \in {"appendUser", "appendAssistant"}
    /\ calls' = [calls EXCEPT ![p] =
                    IF calls[p].pc = "appendUser"
                    THEN [calls[p] EXCEPT !.pc = "callModel", !.invoked = @ + 1]
                    ELSE Failed(calls[p], conversations, "storageError", "storage error")]
    /\ UNCHANGED <<now, messages, conversations, nextConv, nreq, ret, authVars, serviceVars>>

\* An awaited updateConversation rejects (the datastore is unreachable) after
\* the message was persisted: nothing more is written and the catch block
\* ends the call.
StorageFails(p) ==
    /\ calls[p].pc \in {"appendUser", "appendAssistant"}
    /\ calls' = [calls EXCEPT ![p] = Failed(calls[p], conversations, "storageError", "storage error")]
    /\ UNCHANGED <<now, messages, conversations, nextConv, nreq, ret, authVars, serviceVars>>

\* GET /chat/start
StartConversation(user) ==
    /\ nextConv <= MaxConvs
    /\ conversations' = [c \in DOMAIN conversations \cup {nextConv} |->
                            IF c = nextConv THEN newConversationDoc(user, now)
                            ELSE conversations[c]]
    /\ nextConv' = nextConv + 1
    /\ UNCHANGED <<now, messages, calls, nreq, ret, authVars, serviceVars>>

\* POST /auth/get-stats/:kidId by the kid: the figures, then the sweep.
GetStats(kidId, off) ==
    /\ IF off = 0
       THEN /\ ret' = [op |-> "getStats", status |-> 400,
                       message |-> "timezoneOffset not provided."]
            /\ conversations' = conversations
       ELSE /\ ret' = [op |-> "getStats", status |-> 200,
                       stats |-> [f \in {"currentWeekStats", "previousWeekStats",
                                         "todayStats", "yesterdayStats"} |->
                                     getKidStats(conversations, kidId, now, off)[f]]]
            /\ conversations' = deleteOlderThan(conversations, kidId, now, off, RetentionDays)
    /\ UNCHANGED <<now, messages, nextConv, calls, nreq, authVars, serviceVars>>

\* A minute passes.
Tick ==
    /\ (now - Now0) % MinutesPerDay < MaxTicks
    /\ now' = now + 1
    /\ UNCHANGED <<messages, conversations, nextConv, calls, nreq, ret, authVars, serviceVars>>

\* Between requests, time passes long enough for a conversation to fall out
\* of the retention period.
Jump ==
    /\ \A p \in Procs : calls[p].pc \in {"idle", "done"}
    /\ (now - Now0) \div MinutesPerDay < MaxJumps * JumpDays
    /\ now' = now + JumpDays * MinutesPerDay
    /\ UNCHANGED <<messages, conversations, nextConv, calls, nreq, ret, authVars, serviceVars>>

Next ==
    \/ \E p \in Procs, c \in ConvIds, v \in {Str(1)} : Request(p, "text", c, v)
    \/ \E p \in Procs : NewUserMessage(p)
    \/ \E p \in Procs : AppendUser(p)
    \/ \E p \in Procs, content \in ReplyContents : ModelReplies(p, content)
    \/ \E p \in Procs, detail \in ProviderDetails : ModelFails(p, detail)
    \/ \E p \in Procs : NewAssistantMessage(p)
    \/ \E p \in Procs : AppendAssistant(p)
    \/ \E p \in Procs : StorageFails(p)
    \/ \E u \in Kids : StartConversation(u)
    \/ \E k \in Kids, off \in Offsets : GetStats(k, off)
    \/ Tick
    \/ Jump

Spec == InitEmpty /\ [][Next]_vars

(***************************************************************************)
(* SpecRoutes: one request at a time, through every route and with every   *)
(* kind of input, on a conversation that may or may not exist.             *)
(***************************************************************************)
NextRoutes ==
    \/ \E route \in Routes, c \in ConvIds, v \in Inputs : Request(1, route, c, v)
    \/ NewUserMessage(1)
    \/ AppendUser(1)
    \/ \E role \in ReplyRoles, content \in ReplyContents : ModelRepliesAs(1, role, content)
    \/ \E detail \in ProviderDetails : ModelFails(1, detail)
    \/ NewAssistantMessage(1)
    \/ AppendAssistant(1)
    \/ StartConversation("k1")

SpecRoutes == InitEmpty /\ [][NextRoutes]_vars

(***************************************************************************)
(* SpecStats: getKidStats and deleteOlderThan called on a populated store. *)
(* The store holds two conversations, each of either kid, empty or with    *)
(* five or more messages, created just before or at one of the instants    *)
(* the statistics and the sweep compare with.                              *)
(***************************************************************************)
StatsConvIds == {1, 2}

\* 08:00 UTC and 23:00 UTC of the same Wednesday
StatsNows == {Now0, Now0 + 15 * 60}

StatsSizes == {0} \cup (MinChatSize..(MinChatSize + MaxExtraMsgs))

\* The instants the queries compare created_at with, for a client at UTC+2
StatsBoundaries(t) ==
    {getStartOfTodayUTC(t, -120), getStartOfYesterdayUTC(t, -120),
     getStartOfCurrentWeekUTC(t, -120), getStartOfPreviousWeekUTC(t, -120),
     getDaysBeforeUTC(t, -120, RetentionDays)}

StatsCreated(t) == UNION {{b - 1, b} : b \in StatsBoundaries(t)}

\* The store in which conversation c has size[c] messages, one user and one
\* assistant message in turn, all created with the conversation.
populatedConversations(owner, created, size) ==
    [c \in StatsConvIds |->
        [messages |-> [i \in 1..size[c] |-> (IF c = 1 THEN 0 ELSE size[1]) + i],
         owner |-> owner[c],
         created_at |-> created[c]]]

populatedMessages(created, size) ==
    [m \in 1..(size[1] + size[2]) |->
        LET c == IF m <= size[1] THEN 1 ELSE 2
            i == IF m <= size[1] THEN m ELSE m - size[1]
        IN  newMessageDoc(IF i % 2 = 1 THEN "user" ELSE "assistant", Str(1), c, created[c])]

InitStats ==
    /\ now \in StatsNows
    /\ \E owner \in [StatsConvIds -> Kids], size \in [StatsConvIds -> StatsSizes],
          created \in [StatsConvIds -> StatsCreated(now)] :
          /\ conversations = populatedConversations(owner, created, size)
          /\ messages = populatedMessages(created, size)
    /\ nextConv = 3
    /\ calls = [p \in Procs |-> NoCall]
    /\ nreq = 0
    /\ ret = NoRet
    /\ InitAccounts
    /\ InitServices

StatsGetKidStats(kidId, off) ==
    /\ ret' = [op |-> "getKidStats", kid |-> kidId, off |-> off,
               stats |-> getKidStats(conversations, kidId, now, off)]
    /\ UNCHANGED <<now, messages, conversations, nextConv, calls, nreq, authVars, serviceVars>>

StatsDeleteOlderThan(kidId, off, daysBefore) ==
    /\ conversations' = deleteOlderThan(conversations, kidId, now, off, daysBefore)
    /\ ret' = [op |-> "deleteOlderThan", kid |-> kidId, off |-> off,
               daysBefore |-> daysBefore, before |-> conversations]
    /\ UNCHANGED <<now, messages, nextConv, calls, nreq, authVars, serviceVars>>

NextStats ==
    \/ \E k \in Kids, off \in Offsets : StatsGetKidStats(k, off)
    \/ \E k \in Kids, off \in Offsets : StatsDeleteOlderThan(k, off, RetentionDays)

SpecStats == InitStats /\ [][NextStats]_vars

(***************************************************************************)
(* SpecWindow: chat requests, one at a time, on a conversation that        *)
(* already holds up to MaxHistory messages, created a minute apart, whose  *)
(* stored array is in creation order or in the reverse of it.              *)
(***************************************************************************)
historyMessages(n, firstRole) ==
    [i \in 1..n |->
        newMessageDoc(IF i % 2 = 1 THEN firstRole ELSE CHOOSE r \in Roles : r # firstRole,
                      Str(i), 1, Now0 - (MaxHistory + 1) + i)]

historyConversation(n, order) ==
    [c \in {1} |->
        [messages |-> [i \in 1..n |-> IF order = "created" THEN i ELSE n + 1 - i],
         owner |-> "k1",
         created_at |-> Now0 - (MaxHistory + 1)]]

InitWindow ==
    /\ now = Now0
    /\ \E n \in 0..MaxHistory, firstRole \in Roles, order \in {"created", "reversed"} :
          /\ messages = historyMessages(n, firstRole)
          /\ conversations = historyConversation(n, order)
    /\ nextConv = 2
    /\ calls = [p \in Procs |-> NoCall]
    /\ nreq = 0
    /\ ret = NoRet
    /\ InitAccounts
    /\ InitServices

NextWindow ==
    \/ Request(1, "text", 1, Str(1))
    \/ NewUserMessage(1)
    \/ AppendUser(1)
    \/ ModelReplies(1, Str(2))
    \/ ModelFails(1, "")
    \/ NewAssistantMessage(1)
    \/ AppendAssistant(1)

SpecWindow == InitWindow /\ [][NextWindow]_vars

(***************************************************************************)
(* SpecGetStats: POST /auth/get-stats/:kidId, step by step, on a store of  *)
(* two conversations of 6 messages, each of either kid and created just    *)
(* before or at the instant the sweep compares with, or today.  ret is     *)
(* the request being served.                                               *)
(***************************************************************************)
\* Mutant of isParentOf: every user passes for a parent.
isParentOf_anyone(user, kidId) == TRUE

\* userSchema.methods.isParentOf
isParentOf(user, kidId) == kidId \in Range(user.kids)

\* authService.getKidTargets: the status it ends with (200 when it returns)
getKidTargets(us, requestUserId, kidId) ==
    IF requestUserId # kidId /\ requestUserId \notin DOMAIN us
    THEN [status |-> 404, message |-> "Request user not found."]
    ELSE IF requestUserId # kidId /\ ~isParentOf(us[requestUserId], kidId)
    THEN [status |-> 403, message |-> "Access denied."]
    ELSE IF kidId \notin DOMAIN us
    THEN [status |-> 404, message |-> "Kid not found."]
    ELSE [status |-> 200, message |-> ""]

\* What getKidStats returns: the four lengths
kidStatsCounts(convs, kidId, t, off) ==
    [f \in {"currentWeekStats", "previousWeekStats", "todayStats", "yesterdayStats"} |->
        getKidStats(convs, kidId, t, off)[f]]

\* req.user.userId of a valid access token (its user may be gone), and
\* req.params.kidId
Requesters == {"k1", "p1", "p2", "ghost"}
KidIds == {"k1", "k2", "p1", "ghost"}

GetStatsCreated ==
    {getDaysBeforeUTC(Now0, -120, RetentionDays) - 1,
     getDaysBeforeUTC(Now0, -120, RetentionDays),
     getStartOfTodayUTC(Now0, -120)}

InitGetStats ==
    /\ now = Now0
    /\ \E owner \in [StatsConvIds -> Kids], created \in [StatsConvIds -> GetStatsCreated] :
          /\ conversations = populatedConversations(owner, created,
                                 [c \in StatsConvIds |-> MinChatSize + 1])
          /\ messages = populatedMessages(created, [c \in StatsConvIds |-> MinChatSize + 1])
    /\ nextConv = 3
    /\ calls = [p \in Procs |-> NoCall]
    /\ nreq = 0
    /\ ret = NoRet
    /\ InitAccounts
    /\ InitServices

\* The request arrives; the handler starts with the test of timezoneOffset.
GetStatsArrives(requestUserId, kidId, off) ==
    /\ ret.op = "get-stats" => ret.pc = "done"
    /\ LET req == [op |-> "get-stats", pc |-> "targets", requester |-> requestUserId,
                   kid |-> kidId, off |-> off, status |-> 0, message |-> "",
                   stats |-> kidStatsCounts(<<>>, kidId, now, off), statsAt |-> 0,
                   atStart |-> conversations, counted |-> <<>>, before |-> <<>>,
                   swept |-> FALSE, sweptAt |-> 0]
       IN  ret' = IF off = 0
                  THEN [req EXCEPT !.pc = "done", !.status = 400,
                                   !.message = "timezoneOffset not provided."]
                  ELSE req
    /\ UNCHANGED <<chatVars, authVars, serviceVars>>

\* await authService.getKidTargets(requestUserId, kidId)
GetStatsTargets ==
    /\ ret.op = "get-stats" /\ ret.pc = "targets"
    /\ LET r == getKidTargets(users, ret.requester, ret.kid)
       IN  ret' = IF r.status = 200
                  THEN [ret EXCEPT !.pc = "stats"]
                  ELSE [ret EXCEPT !.pc = "done", !.status = r.status, !.message = r.message]
    /\ UNCHANGED <<chatVars, authVars, serviceVars>>

\* await historyService.getKidStats(kidId, timezoneOffset)
GetStatsFigures ==
    /\ ret.op = "get-stats" /\ ret.pc = "stats"
    /\ ret' = [ret EXCEPT !.pc = "sweep",
                          !.stats = kidStatsCounts(conversations, ret.kid, now, ret.off),
                          !.statsAt = now, !.counted = conversations]
    /\ UNCHANGED <<chatVars, authVars, serviceVars>>

\* Mutant of GetStatsSweep: the response without the sweep.
GetStatsSweep_skipped ==
    /\ ret.op = "get-stats" /\ ret.pc = "sweep"
    /\ ret' = [ret EXCEPT !.pc = "done", !.status = 200, !.sweptAt = now,
                          !.before = conversations]
    /\ UNCHANGED <<chatVars, authVars, serviceVars>>

\* await historyService.deleteOlderThan(kidId, timezoneOffset, 15), then
\* res.status(200).json({targets, stats})
GetStatsSweep ==
    /\ ret.op = "get-stats" /\ ret.pc = "sweep"
    /\ conversations' = deleteOlderThan(conversations, ret.kid, now, ret.off, RetentionDays)
    /\ ret' = [ret EXCEPT !.pc = "done", !.status = 200, !.swept = TRUE,
                          !.sweptAt = now, !.before = conversations]
    /\ UNCHANGED <<now, messages, nextConv, calls, nreq, authVars, serviceVars>>

\* One of the awaited queries rejects (the datastore is unreachable): it has
\* written nothing and next(error) ends the request.
GetStatsStorageFails ==
    /\ ret.op = "get-stats" /\ ret.pc \in {"targets", "stats", "sweep"}
    /\ ret' = [ret EXCEPT !.pc = "done", !.status = 500, !.message = "storage error"]
    /\ UNCHANGED <<chatVars, authVars, serviceVars>>

NextGetStats ==
    \/ \E r \in Requesters, k \in KidIds, off \in Offsets : GetStatsArrives(r, k, off)
    \/ GetStatsTargets
    \/ GetStatsFigures
    \/ GetStatsSweep
    \/ GetStatsStorageFails
    \/ Tick

SpecGetStats == InitGetStats /\ [][NextGetStats]_vars

(***************************************************************************)
(* SpecAuth: login, Google sign-in, refresh and logout, in any order,      *)
(* within a few seconds.  Each is taken as one step.                       *)
(***************************************************************************)
\* The _id of the n-th account created after the initial ones
NewUserIds == <<"n1", "n2", "n3", "n4">>

created(us) == Cardinality(DOMAIN us) - Cardinality(DOMAIN InitialUsers)

\* userModel.findOne({ email }): email is a unique index
findByEmail(us, email) == {u \in DOMAIN us : us[u].email = email}

\* The tokens that have been stored for a user and are so no more, after the
\* token of u is overwritten or cleared
replacedWith(u) ==
    IF users[u].refreshToken = NoToken THEN replaced
    ELSE replaced \cup {users[u].refreshToken}

authRet(op) ==
    [op |-> op, status |-> 0, message |-> "", email |-> "", password |-> Missing,
     user |-> "", token |-> NoToken, stored |-> NoToken, wasReplaced |-> FALSE,
     refreshToken |-> NoToken, before |-> users]

\* authService.login
Login(email, password) ==
    /\ LET base == [authRet("login") EXCEPT !.email = email, !.password = password]
           found == findByEmail(users, email)
           u == CHOOSE x \in found : TRUE
           tokens == generateTokens(u, issuedAt(now, sec))
       IN  IF found = {}
           THEN /\ ret' = [base EXCEPT !.status = 401, !.message = "Invalid email or password!"]
                /\ UNCHANGED <<users, replaced>>
           ELSE IF ~users[u].isEmailVerified
           THEN /\ ret' = [base EXCEPT !.status = 403, !.user = u,
                                       !.message = "Please verify your email before logging in!"]
                /\ UNCHANGED <<users, replaced>>
           ELSE IF comparePassword(password, users[u].password) = "rejects"
           THEN /\ ret' = [base EXCEPT !.status = 500, !.user = u,
                                       !.message = "data and hash arguments required"]
                /\ UNCHANGED <<users, replaced>>
           ELSE IF comparePassword(password, users[u].password) = "false"
           THEN /\ ret' = [base EXCEPT !.status = 401, !.user = u,
                                       !.message = "Invalid email or password!"]
                /\ UNCHANGED <<users, replaced>>
           ELSE /\ users' = [users EXCEPT ![u].refreshToken = tokens.refreshToken]
                /\ replaced' = replacedWith(u)
                /\ ret' = [base EXCEPT !.status = 200, !.user = u,
                                       !.stored = users[u].refreshToken,
                                       !.refreshToken = tokens.refreshToken]
    /\ UNCHANGED <<chatVars, sec, serviceVars>>

\* googleAuthService.handleGoogleLogin for a verified Google identity: the
\* account of its email, created without a password when there is none.
GoogleLogin(email) ==
    /\ findByEmail(users, email) = {} => created(users) < MaxNewUsers
    /\ LET found == findByEmail(users, email)
           u == IF found = {} THEN NewUserIds[created(users) + 1]
                ELSE CHOOSE x \in found : TRUE
           tokens == generateTokens(u, issuedAt(now, sec))
       IN  /\ users' = [x \in DOMAIN users \cup {u} |->
                          IF x = u
                          THEN [(IF found = {}
                                 THEN userDoc(email, NoHash, TRUE, "parent", "google-sub",
                                              NoYears, <<>>)
                                 ELSE users[u]) EXCEPT !.refreshToken = tokens.refreshToken]
                          ELSE users[x]]
           /\ replaced' = IF found = {} THEN replaced ELSE replacedWith(u)
           /\ ret' = [authRet("google") EXCEPT !.status = 200, !.email = email, !.user = u,
                                               !.refreshToken = tokens.refreshToken]
    /\ UNCHANGED <<chatVars, sec, serviceVars>>

\* POST /auth/refresh with the cookie refreshToken, and authService.refresh
Refresh(token) ==
    /\ LET base == [authRet("refresh") EXCEPT
                       !.token = token, !.wasReplaced = token \in replaced,
                       !.stored = IF token.userId \in DOMAIN users
                                  THEN users[token.userId].refreshToken ELSE NoToken]
           u == token.userId
           tokens == generateTokens(u, issuedAt(now, sec))
       IN  IF \/ token = NoToken
              \/ ~verifyRefreshToken(token)
              \/ u \notin DOMAIN users
              \/ users[u].refreshToken # token
           THEN /\ ret' = [base EXCEPT !.status = 401, !.message = "Invalid refresh token!"]
                /\ UNCHANGED <<users, replaced>>
           ELSE /\ users' = [users EXCEPT ![u].refreshToken = tokens.refreshToken]
                /\ replaced' = replacedWith(u)
                /\ ret' = [base EXCEPT !.status = 200, !.user = u,
                                       !.refreshToken = tokens.refreshToken]
    /\ UNCHANGED <<chatVars, sec, serviceVars>>

\* authService.logout
Logout(userId) ==
    /\ IF userId \notin DOMAIN users
       THEN /\ ret' = [authRet("logout") EXCEPT !.status = 404, !.message = "User not found!"]
            /\ UNCHANGED <<users, replaced>>
       ELSE /\ users' = [users EXCEPT ![userId].refreshToken = NoToken]
            /\ replaced' = replacedWith(userId)
            /\ ret' = [authRet("logout") EXCEPT !.status = 200, !.user = userId,
                                                !.stored = users[userId].refreshToken]
    /\ UNCHANGED <<chatVars, sec, serviceVars>>

\* A second passes.
Second ==
    /\ sec < MaxSeconds
    /\ sec' = sec + 1
    /\ UNCHANGED <<chatVars, ret, users, replaced, serviceVars>>

LoginEmails == {"p1@x.yz", "p2@x.yz", "g1@x.yz", "nobody@x.yz"}
LoginPasswords == {Text("secret1"), Text("wrong"), Missing}

\* What a client may send as the cookie: a refresh token that is or was
\* stored, nothing, an access token, or a token signed with another secret.
RefreshCookies ==
    replaced \cup {users[u].refreshToken : u \in DOMAIN users}
        \cup {generateTokens("p1", issuedAt(now, 0)).accessToken,
              jwtSign("p1", "forged", issuedAt(now, 0))}

NextAuth ==
    \/ \E email \in LoginEmails, password \in LoginPasswords : Login(email, password)
    \/ GoogleLogin("g1@x.yz")
    \/ \E token \in RefreshCookies : Refresh(token)
    \/ \E userId \in {"p1", "n1", "ghost"} : Logout(userId)
    \/ Second

SpecAuth == InitEmpty /\ [][NextAuth]_vars

(***************************************************************************)
(* SpecKids: a parent creates kid accounts (authService.createKid).        *)
(***************************************************************************)
\* authService.createKid with kidData = {email, years, parent} and a full
\* name and a password the schema accepts.  An email that is not given is
\* "", and years that are not given are 0.
CreateKid(email, years, parent) ==
    /\ created(users) < MaxNewUsers
    /\ LET base == [op |-> "createKid", status |-> 0, message |-> "", email |-> email,
                    years |-> years, parent |-> parent, kid |-> "", before |-> users]
           kid == NewUserIds[created(users) + 1]
           doc == userDoc(email, Hash("kidpw"), TRUE, "kid", "",
                          IF years = 0 THEN NoYears ELSE Years(years), <<>>)
       IN  IF email # "" /\ findByEmail(users, email) # {}
           THEN /\ ret' = [base EXCEPT !.status = 409, !.message = "Email already registered!"]
                /\ users' = users
           ELSE IF email = ""
           THEN /\ ret' = [base EXCEPT !.status = 400, !.message = "Validation failed."]
                /\ users' = users
           ELSE /\ users' = [x \in DOMAIN users \cup {kid} |->
                               IF x = kid THEN doc
                               ELSE IF x = parent
                               THEN [users[x] EXCEPT !.kids = Append(@, kid)]
                               ELSE users[x]]
                /\ ret' = [base EXCEPT !.status = 201, !.kid = kid]
    /\ UNCHANGED <<chatVars, sec, replaced, serviceVars>>

KidEmails == {"new1@x.yz", "new2@x.yz", "k1@x.yz", ""}
KidYears == {0, 1, 8, 120, 121}

NextKids ==
    \E email \in KidEmails, years \in KidYears : CreateKid(email, years, "p1")

SpecKids == InitEmpty /\ [][NextKids]_vars

(***************************************************************************)
(* SpecTime: getStartOfCurrentWeekUTC and getStartOfTodayUTC called at an  *)
(* instant of the week that begins at Now0, on a half hour or a minute     *)
(* before it, by clients of six time zones.                                *)
(***************************************************************************)
\* Date.getTimezoneOffset() of UTC+14, UTC+5:30, UTC+2, UTC, UTC-5, UTC-12
TimeOffsets == {-840, -330, -120, 0, 300, 720}

TimeNows == {Now0 + 30 * k - j : k \in 0..MaxTimeSteps, j \in {0, 1}}

InitTime ==
    /\ now \in TimeNows
    /\ messages = <<>>
    /\ conversations = <<>>
    /\ nextConv = 1
    /\ calls = [p \in Procs |-> NoCall]
    /\ nreq = 0
    /\ ret = NoRet
    /\ InitAccounts
    /\ InitServices

TimeCurrentWeek(off) ==
    /\ ret' = [op |-> "getStartOfCurrentWeekUTC", off |-> off,
               result |-> getStartOfCurrentWeekUTC(now, off)]
    /\ UNCHANGED <<now, messages, conversations, nextConv, calls, nreq, authVars, serviceVars>>

TimeToday(off) ==
    /\ ret' = [op |-> "getStartOfTodayUTC", off |-> off,
               result |-> getStartOfTodayUTC(now, off)]
    /\ UNCHANGED <<now, messages, conversations, nextConv, calls, nreq, authVars, serviceVars>>

NextTime ==
    \/ \E off \in TimeOffsets : TimeCurrentWeek(off)
    \/ \E off \in TimeOffsets : TimeToday(off)

SpecTime == InitTime /\ [][NextTime]_vars

(***************************************************************************)
(* SpecOwners: two workers serve chat requests on two conversations, one   *)
(* of each kid, that /chat/start has created.                              *)
(***************************************************************************)
OwnerConvIds == {1, 2}

InitOwners ==
    /\ now = Now0
    /\ messages = <<>>
    /\ conversations = [c \in OwnerConvIds |->
                           newConversationDoc(IF c = 1 THEN "k1" ELSE "k2", Now0)]
    /\ nextConv = 3
    /\ calls = [p \in Procs |-> NoCall]
    /\ nreq = 0
    /\ ret = NoRet
    /\ InitAccounts
    /\ InitServices

NextOwners ==
    \/ \E p \in Procs, c \in OwnerConvIds : Request(p, "text", c, Str(1))
    \/ \E p \in Procs : NewUserMessage(p)
    \/ \E p \in Procs : AppendUser(p)
    \/ \E p \in Procs : ModelReplies(p, Str(2))
    \/ \E p \in Procs : ModelFails(p, "")
    \/ \E p \in Procs : NewAssistantMessage(p)
    \/ \E p \in Procs : AppendAssistant(p)
    \/ \E p \in Procs : StorageFails(p)

SpecOwners == InitOwners /\ [][NextOwners]_vars

(***************************************************************************)
(* Properties of the conversation store                                    *)
(***************************************************************************)
IsChronological(msgs, list) ==
    \A i, j \in DOMAIN list : i < j => msgs[list[i]].created_at <= msgs[list[j]].created_at

HasNoDuplicate(list) ==
    \A i, j \in DOMAIN list : list[i] = list[j] => i = j

\* C2: whatever the order of the updateConversation calls was, the message
\* list a call returns is in non-decreasing created_at order.
C2_ReturnedListChronological ==
    (ret.op = "updateConversation" /\ ret.result.kind = "conversation")
        => IsChronological(messages, ret.result.messages)

\* A call has returned a list of several messages whose stored array is not
\* in creation order (a later-created message was appended first).
C2_Witness ==
    /\ ret.op = "updateConversation"
    /\ ret.result.kind = "conversation"
    /\ Len(ret.result.messages) >= 2
    /\ ret.conversationId \in DOMAIN conversations
    /\ ~IsChronological(messages, conversations[ret.conversationId].messages)

\* C6: updateConversation with the id of no conversation fails with a
\* NotFoundError and creates no conversation.
C6_MissingConversationIsNotFound ==
    (ret.op = "updateConversation" /\ ~ret.existed)
        => /\ ret.result.kind = "NotFoundError"
           /\ ret.conversationId \notin DOMAIN conversations

\* C7: no conversation lists a message id twice, and a call that repeats an
\* append returns the message exactly once.
C7_AppendIdempotent ==
    /\ \A c \in DOMAIN conversations : HasNoDuplicate(conversations[c].messages)
    /\ (ret.op = "updateConversation" /\ ret.already)
          => /\ Cardinality({i \in DOMAIN ret.result.messages :
                                ret.result.messages[i] = ret.messageId}) = 1
             /\ Cardinality({i \in DOMAIN conversations[ret.conversationId].messages :
                                conversations[ret.conversationId].messages[i] = ret.messageId}) = 1

\* updateConversation has been called with a message id its conversation
\* already listed.
C7_Witness ==
    /\ ret.op = "updateConversation"
    /\ ret.already
    /\ ret.result.kind = "conversation"
    /\ Len(ret.result.messages) >= 2

(***************************************************************************)
(* Properties of the turn orchestrator                                     *)
(***************************************************************************)
Done(p) == calls[p].pc = "done"

\* C1: a finished chatWithLexi call has added one message to its
\* conversation when the model call failed and two when the call succeeded.
C1_TurnAddsOneOrTwo ==
    \A p \in Procs :
        Done(p) => /\ calls[p].outcome = "ok" => calls[p].added = 2
                   /\ calls[p].outcome = "modelError" => calls[p].added = 1

\* C4 as stated: when the model call throws, the call returns with the user
\* message stored and listed in the conversation, no assistant message, and
\* the fixed error message with the provider's detail.
C4_UserTurnListedAfterModelFailure ==
    \A p \in Procs :
        (Done(p) /\ calls[p].outcome = "modelError")
            => /\ calls[p].userMsg \in DOMAIN messages
               /\ messages[calls[p].userMsg].role = "user"
               /\ calls[p].listed
               /\ calls[p].asstMsg = 0
               /\ calls[p].status = 500
               /\ calls[p].message = "Error during AI response generation."
               /\ calls[p].details =
                     (IF calls[p].error = "" THEN "OpenAI API error." ELSE calls[p].error)

\* C4 as amended: the same, the user message being listed in the conversation
\* whenever the conversation still exists when the call returns (the call
\* itself has appended it and removes nothing).
C4_UserTurnKeptAfterModelFailure ==
    \A p \in Procs :
        (Done(p) /\ calls[p].outcome = "modelError")
            => /\ calls[p].userMsg \in DOMAIN messages
               /\ messages[calls[p].userMsg].role = "user"
               /\ messages[calls[p].userMsg].conversation = calls[p].conversationId
               /\ calls[p].added = 1
               /\ calls[p].alive => calls[p].listed
               /\ calls[p].asstMsg = 0
               /\ calls[p].status = 500
               /\ calls[p].message = "Error during AI response generation."
               /\ calls[p].details =
                     (IF calls[p].error = "" THEN "OpenAI API error." ELSE calls[p].error)

\* A call has ended in a model failure that carried a detail, its user
\* message listed in the conversation.
C4_Witness ==
    \E p \in Procs :
        /\ Done(p)
        /\ calls[p].outcome = "modelError"
        /\ calls[p].details = "provider error"
        /\ calls[p].listed
        /\ IsListed(conversations, calls[p].conversationId, calls[p].userMsg)

\* C8: every id a conversation lists is the id of a stored message.
C8_NoDanglingReference ==
    \A c \in DOMAIN conversations :
        \A i \in DOMAIN conversations[c].messages :
            conversations[c].messages[i] \in DOMAIN messages

\* A call has failed between persisting its message and appending it: the
\* message is stored and no conversation lists it, while another message is
\* listed.
C8_Witness ==
    /\ \E p \in Procs :
          /\ Done(p)
          /\ calls[p].outcome = "storageError"
          /\ calls[p].userMsg \in DOMAIN messages
          /\ \A c \in DOMAIN conversations :
                calls[p].userMsg \notin Range(conversations[c].messages)
    /\ \E c \in DOMAIN conversations : conversations[c].messages # <<>>

\* C5: on every route, a text that is no string, is empty or is longer than
\* 4096 characters is rejected before a message is persisted, so every
\* stored user message holds a non-empty string of at most 4096 characters.
C5_InvalidInputNeverPersisted ==
    \A m \in DOMAIN messages :
        messages[m].role = "user"
            => /\ IsString(messages[m].content[1].text)
               /\ messages[m].content[1].text.len >= 1
               /\ messages[m].content[1].text.len <= 4096

(***************************************************************************)
(* Properties of the statistics and of the retention sweep                 *)
(***************************************************************************)
\* The UTC instant of the last local midnight at or before t, local time
\* being UTC minus off minutes.
LocalMidnight(t, off) ==
    CHOOSE m \in (t - MinutesPerDay + 1)..t : (m - off) % MinutesPerDay = 0

\* The UTC instant of the last local Monday 00:00 at or before t.
LocalMonday(t, off) ==
    CHOOSE m \in {LocalMidnight(t, off) - k * MinutesPerDay : k \in 0..6} :
        (((m - off) \div MinutesPerDay) - ((Now0 + 120) \div MinutesPerDay)) % 7 = 5

\* C9: deleteOlderThan(kidId, offset, 15) deletes exactly the conversations
\* of kidId created strictly before local midnight of today minus 15 days,
\* and leaves every other conversation as it was.
C9_SweepDeletesExactlyTheStale ==
    ret.op = "deleteOlderThan" =>
        LET cutoff == LocalMidnight(now, ret.off) - 15 * MinutesPerDay
        IN  /\ DOMAIN conversations \subseteq DOMAIN ret.before
            /\ \A c \in DOMAIN ret.before :
                  /\ (c \notin DOMAIN conversations)
                        <=> (ret.before[c].owner = ret.kid /\ ret.before[c].created_at < cutoff)
                  /\ c \in DOMAIN conversations => conversations[c] = ret.before[c]

\* A sweep has deleted a stale conversation of the kid and kept one of the
\* other kid that is just as old.
C9_Witness ==
    /\ ret.op = "deleteOlderThan"
    /\ \E c, d \in DOMAIN ret.before :
          /\ c \notin DOMAIN conversations
          /\ d \in DOMAIN conversations
          /\ ret.before[d].owner # ret.kid
          /\ ret.before[d].created_at <= ret.before[c].created_at

\* C10: none of the four figures counts a conversation of exactly 5
\* messages, and each counts a conversation of the kid with 6 messages that
\* was created inside the figure's range.
C10_ThresholdIsMoreThanFive ==
    ret.op = "getKidStats" =>
        LET today == LocalMidnight(now, ret.off)
            monday == LocalMonday(now, ret.off)
            s == ret.stats
        IN  \A c \in DOMAIN conversations :
               LET conv == conversations[c]
                   at == conv.created_at
               IN  /\ Len(conv.messages) = 5 =>
                         c \notin (s.currentWeek \cup s.previousWeek \cup s.today \cup s.yesterday)
                   /\ (Len(conv.messages) = 6 /\ conv.owner = ret.kid) =>
                         /\ at >= monday => c \in s.currentWeek
                         /\ (at >= monday - 7 * MinutesPerDay /\ at < monday) => c \in s.previousWeek
                         /\ at >= today => c \in s.today
                         /\ (at >= today - MinutesPerDay /\ at < today) => c \in s.yesterday

\* The figures have been computed over a conversation of 5 messages that lies
\* in the range of today and over one of 6 messages that is counted.
C10_Witness ==
    /\ ret.op = "getKidStats"
    /\ \E c, d \in DOMAIN conversations :
          /\ Len(conversations[c].messages) = 5
          /\ conversations[c].owner = ret.kid
          /\ conversations[c].created_at >= LocalMidnight(now, ret.off)
          /\ Len(conversations[d].messages) = 6
          /\ d \in ret.stats.today
          /\ ret.stats.todayStats = 1

(***************************************************************************)
(* Properties of the context window                                        *)
(***************************************************************************)
\* The call of worker p holds the context it hands to the language model.
HoldsContext(p) == calls[p].pc \in {"callModel", "newAssistantMessage", "appendAssistant"}

\* C3: the context is the last 20 messages of the chronological history, in
\* the same order, and the whole history when that has fewer than 20.
C3_WindowIsLastTwenty ==
    \A p \in Procs :
        HoldsContext(p) =>
            LET chron == calls[p].updated
                n == Len(chron)
                w == calls[p].context
            IN  /\ IsChronological(messages, chron)
                /\ HasNoDuplicate(chron)
                /\ calls[p].pc = "callModel" =>
                      Range(chron) = Range(conversations[calls[p].conversationId].messages)
                /\ Len(w) = (IF n >= 20 THEN 20 ELSE n)
                /\ \A i \in 1..Len(w) :
                      LET msg == messages[chron[n - Len(w) + i]]
                      IN  /\ w[i].role = msg.role
                          /\ w[i].content = <<[type |-> "text", text |-> msg.content[1].text]>>

\* A context of 20 turns has been cut from a longer history whose stored
\* array is not in creation order.
C3_Witness ==
    \E p \in Procs :
        /\ calls[p].pc = "callModel"
        /\ Len(calls[p].updated) > 20
        /\ Len(calls[p].context) = 20
        /\ ~IsChronological(messages, conversations[calls[p].conversationId].messages)

(***************************************************************************)
(* Properties of the message store under retention                         *)
(***************************************************************************)
\* C11: a step removes a message only together with its conversation: a
\* message whose conversation is still there after the step is kept as it
\* was, and when a step deletes a conversation no message owned by that
\* conversation is left in the collection.
C11_MessagesGoWithTheirConversation ==
    [][/\ \A m \in DOMAIN messages :
             messages[m].conversation \in DOMAIN conversations'
                => (m \in DOMAIN messages' /\ messages'[m] = messages[m])
       /\ \A c \in DOMAIN conversations \ DOMAIN conversations' :
             \A m \in DOMAIN messages' : messages'[m].conversation # c]_vars

\* C12: the array a conversation stores lists its messages in creation
\* order, in every state.
C12_StoredListChronological ==
    \A c \in DOMAIN conversations :
        IsChronological(messages, conversations[c].messages)

\* C13: a message that a conversation lists names that conversation in its
\* conversation field, and no message id is listed by two conversations.
C13_ListedMessageHasOneOwner ==
    /\ \A c \in DOMAIN conversations :
          \A i \in DOMAIN conversations[c].messages :
              messages[conversations[c].messages[i]].conversation = c
    /\ \A c, d \in DOMAIN conversations :
          c # d => Range(conversations[c].messages) \cap Range(conversations[d].messages) = {}

\* Two conversations list messages, those of two calls that ran at the same
\* time among them.
C13_Witness ==
    /\ \A c \in OwnerConvIds :
          c \in DOMAIN conversations /\ Len(conversations[c].messages) >= 2
    /\ messages[1].role = "user" /\ messages[2].role = "user"
    /\ messages[1].conversation # messages[2].conversation

(***************************************************************************)
(* Properties of the message schema                                        *)
(***************************************************************************)
\* C14: every stored message has the role user or assistant and at least
\* one content block, each block holding a non-empty text; and a model
\* reply with another role or without a text ends its call with the
\* validation error, nothing being persisted for it.
C14_OnlyValidMessagesPersisted ==
    /\ [](\A m \in DOMAIN messages :
             /\ messages[m].role \in {"user", "assistant"}
             /\ Len(messages[m].content) >= 1
             /\ \A i \in DOMAIN messages[m].content :
                   /\ messages[m].content[i].text.type = "string"
                   /\ messages[m].content[i].text.len >= 1)
    /\ [][\A p \in Procs :
             (/\ calls[p].pc = "newAssistantMessage"
              /\ calls'[p].pc # "newAssistantMessage"
              /\ \/ calls[p].reply.role \notin {"user", "assistant"}
                 \/ calls[p].reply.content.type # "string"
                 \/ calls[p].reply.content.len = 0)
                => /\ messages' = messages
                   /\ calls'[p].outcome = "validation"
                   /\ calls'[p].status = 500
                   /\ calls'[p].asstMsg = 0]_vars

\* A reply without a text and then a reply with the role system have been
\* refused: the two user messages are all that is stored.
C14_Witness ==
    /\ Len(messages) = 2
    /\ \A m \in DOMAIN messages : messages[m].role = "user"
    /\ Done(1)
    /\ calls[1].outcome = "validation"
    /\ calls[1].error = "Message validation failed: role"

(***************************************************************************)
(* Properties of the four figures                                          *)
(***************************************************************************)
\* C15: a conversation of the kid with more than 5 messages that was
\* created at or after local midnight of today is counted in today and in
\* currentWeek and in neither previousWeek nor yesterday; and no
\* conversation is counted both in currentWeek and previousWeek, or both
\* in today and yesterday.
C15_TodayCountsInThisWeekOnly ==
    ret.op = "getKidStats" =>
        LET today == LocalMidnight(now, ret.off)
            s == ret.stats
        IN  /\ \A c \in DOMAIN conversations :
                  (/\ conversations[c].owner = ret.kid
                   /\ Len(conversations[c].messages) > 5
                   /\ conversations[c].created_at >= today)
                     => /\ c \in s.today
                        /\ c \in s.currentWeek
                        /\ c \notin s.previousWeek
                        /\ c \notin s.yesterday
            /\ s.currentWeek \cap s.previousWeek = {}
            /\ s.today \cap s.yesterday = {}

\* The figures have been computed over a conversation of 6 messages created
\* at local midnight of today and over one that counts for yesterday.
C15_Witness ==
    /\ ret.op = "getKidStats"
    /\ \E c, d \in DOMAIN conversations :
          /\ conversations[c].owner = ret.kid
          /\ Len(conversations[c].messages) = 6
          /\ conversations[c].created_at = LocalMidnight(now, ret.off)
          /\ c \in ret.stats.today \cap ret.stats.currentWeek
          /\ d \in ret.stats.yesterday
          /\ ret.stats.todayStats = 1
          /\ ret.stats.yesterdayStats = 1

(***************************************************************************)
(* Properties of the week and day boundaries                               *)
(***************************************************************************)
\* C16: currentWeekStart is the one instant r at or before now and less
\* than a week before it that is 00:00 of a Monday on the caller's clock
\* (which shows r minus the offset); todayStart is the one instant at or
\* before now and less than a day before it that is 00:00 on that clock.
\* At offset -120 and Wednesday 2024-06-12 10:00 local, currentWeekStart is
\* Monday 2024-06-10 00:00 local.  (Now0 lies on Wednesday 2024-06-12; day
\* k of the epoch is a Monday when k - 4 is a multiple of 7.)
C16_BoundariesAreLocalMondayAndMidnight ==
    /\ ret.op = "getStartOfCurrentWeekUTC" =>
          /\ ret.result <= now
          /\ now - ret.result < 7 * 1440
          /\ (ret.result - ret.off) % 1440 = 0
          /\ (((ret.result - ret.off) \div 1440) - 4) % 7 = 0
          /\ (ret.off = -120 /\ now = Now0) =>
                ret.result - ret.off = ((Now0 \div 1440) - 2) * 1440
    /\ ret.op = "getStartOfTodayUTC" =>
          /\ ret.result <= now
          /\ now - ret.result < 1440
          /\ (ret.result - ret.off) % 1440 = 0

\* currentWeekStart has been computed for offset -120 at 08:00 UTC of
\* Wednesday 2024-06-12: it is 22:00 UTC of the Sunday before.
C16_Witness ==
    /\ ret.op = "getStartOfCurrentWeekUTC"
    /\ ret.off = -120
    /\ now = Now0
    /\ now - ret.result = 2 * 1440 + 10 * 60

(***************************************************************************)
(* Properties of the get-stats endpoint                                    *)
(***************************************************************************)
\* C17: a get-stats request that ends with status 200 has run the sweep for
\* its kid: no conversation of the kid created before local midnight minus
\* 15 days is left, only such conversations are gone, and the figures it
\* returns count the conversations that were there before the sweep.  A
\* request that ends with another status has deleted nothing.
C17_SuccessfulStatsHaveSwept ==
    (ret.op = "get-stats" /\ ret.pc = "done") =>
        /\ ret.status = 200 =>
              LET cutoff == LocalMidnight(ret.sweptAt, ret.off) - 15 * 1440
                  today == LocalMidnight(ret.statsAt, ret.off)
                  monday == LocalMonday(ret.statsAt, ret.off)
                  counted(from, to) ==
                      Cardinality({c \in DOMAIN ret.before :
                                      /\ ret.before[c].owner = ret.kid
                                      /\ Len(ret.before[c].messages) > 5
                                      /\ ret.before[c].created_at >= from
                                      /\ ret.before[c].created_at < to})
              IN  /\ ret.swept
                  /\ ret.statsAt <= ret.sweptAt
                  /\ \A c \in DOMAIN conversations :
                        conversations[c].owner = ret.kid
                            => conversations[c].created_at >= cutoff
                  /\ \A c \in DOMAIN ret.before :
                        IF ret.before[c].owner = ret.kid /\ ret.before[c].created_at < cutoff
                        THEN c \notin DOMAIN conversations
                        ELSE c \in DOMAIN conversations /\ conversations[c] = ret.before[c]
                  /\ ret.counted = ret.before
                  /\ ret.stats.todayStats = counted(today, now + 1)
                  /\ ret.stats.yesterdayStats = counted(today - 1440, today)
                  /\ ret.stats.currentWeekStats = counted(monday, now + 1)
                  /\ ret.stats.previousWeekStats = counted(monday - 7 * 1440, monday)
        /\ ret.status # 200 => (~ret.swept /\ conversations = ret.atStart)

\* A parent's request has returned figures that count a conversation of
\* today, and its sweep has deleted a conversation of the kid.
C17_Witness ==
    /\ ret.op = "get-stats"
    /\ ret.pc = "done"
    /\ ret.status = 200
    /\ ret.requester = "p1"
    /\ ret.stats.todayStats = 1
    /\ \E c \in DOMAIN ret.before : c \notin DOMAIN conversations

(***************************************************************************)
(* Properties of the accounts                                              *)
(***************************************************************************)
\* C18: refresh accepts a token only when it is the one stored for its
\* user, an accepted refresh stores the token it returns, and a refresh
\* token that has been replaced or cleared is rejected with 'Invalid
\* refresh token!'.
C18_ReplacedTokenIsRejected ==
    ret.op = "refresh" =>
        /\ ret.status = 200 =>
              /\ ret.token = ret.stored
              /\ users[ret.user].refreshToken = ret.refreshToken
        /\ ret.wasReplaced =>
              /\ ret.status = 401
              /\ ret.message = "Invalid refresh token!"

\* C19: login succeeds, and stores the refresh token it returns, exactly
\* when an account has the email, is verified and has the password; it
\* fails with 'Invalid email or password!' for an unknown email and for a
\* verified account with another password, and with 'Please verify your
\* email before logging in!' for an unverified account; and a failed login
\* leaves the accounts as they were.
C19_LoginFailsWithTheTwoMessages ==
    ret.op = "login" =>
        LET known == {u \in DOMAIN ret.before : ret.before[u].email = ret.email}
            verified == {u \in known : ret.before[u].isEmailVerified}
            matching == {u \in verified :
                            /\ ret.password.type = "string"
                            /\ ret.before[u].password = [type |-> "bcrypt", of |-> ret.password.text]}
        IN  /\ ret.status = 200 <=> matching # {}
            /\ ret.status = 200 =>
                  /\ ret.refreshToken # NoToken
                  /\ users[ret.user].refreshToken = ret.refreshToken
            /\ (known = {} \/ (verified # {} /\ matching = {}))
                  => ret.message = "Invalid email or password!"
            /\ (known # {} /\ verified = {})
                  => ret.message = "Please verify your email before logging in!"
            /\ ret.status # 200 => users = ret.before

\* C20: createKid with years below 1 or above 120 fails with 'Invalid age!'
\* and leaves the accounts, the kids of the parent among them, as they
\* were.
C20_InvalidAgeCreatesNoKid ==
    (ret.op = "createKid" /\ (ret.years < 1 \/ ret.years > 120)) =>
        /\ ret.message = "Invalid age!"
        /\ DOMAIN users = DOMAIN ret.before
        /\ users[ret.parent].kids = ret.before[ret.parent].kids

(***************************************************************************)
(* SpecStream: the audio streams of POST /chat/uri.  generateTtsUri asks   *)
(* the speech model for the audio of the reply and generateStreamEndpoint  *)
(* publishes it: it draws a fresh id, REPLACES the module variable         *)
(* dynamicAudioRouter by a new Router with the one route /<id>, and        *)
(* returns the URI.  router.js serves /api/audio/* by calling whatever     *)
(* dynamicAudioRouter is at the time of the fetch.                         *)
(*   dynamicAudioRouter  the router: its one route and the stream it pipes *)
(*   streams             the URIs returned so far, with the audio of the   *)
(*                       request each was returned to                      *)
(***************************************************************************)
MaxStreams == 3
Audios == {"hello", "bye"}

\* crypto.randomUUID(): the n-th id differs from every id drawn before
randomUUID(n) == n

\* generateStreamEndpoint: the value of dynamicAudioRouter after the call
generateStreamEndpoint(router, uniqueId, stream) ==
    [uniqueId |-> uniqueId, stream |-> stream, piped |-> FALSE]

\* POST /chat/uri after the reply is known: generateTtsUri(reply)
GenerateTtsUri(audio) ==
    /\ Len(streams) < MaxStreams
    /\ LET uniqueId == randomUUID(Len(streams) + 1)
       IN  /\ dynamicAudioRouter' = generateStreamEndpoint(dynamicAudioRouter, uniqueId, audio)
           /\ streams' = Append(streams, [streamUri |-> uniqueId, audio |-> audio, fetched |-> FALSE])
           /\ ret' = [op |-> "chat-uri", status |-> 200, streamUri |-> uniqueId, body |-> "",
                      expected |-> audio, first |-> FALSE, between |-> 0]
    /\ UNCHANGED <<chatVars, authVars, resetVars, fileVars>>

\* GET /api/audio/<id> of a URI that was returned: the route of the current
\* router pipes its stream (which can be read once); any other path falls
\* through the router to the 404 of the application.
FetchAudio(i) ==
    /\ i \in 1..Len(streams)
    /\ LET uri == streams[i].streamUri
           hit == dynamicAudioRouter # Null /\ dynamicAudioRouter.uniqueId = uri
       IN  /\ ret' = [op |-> "fetch-audio",
                      status |-> IF hit THEN 200 ELSE 404,
                      streamUri |-> uri,
                      body |-> IF hit /\ ~dynamicAudioRouter.piped
                               THEN dynamicAudioRouter.stream ELSE "",
                      expected |-> streams[i].audio,
                      first |-> ~streams[i].fetched,
                      between |-> Len(streams) - i]
           /\ dynamicAudioRouter' = IF hit THEN [dynamicAudioRouter EXCEPT !.piped = TRUE]
                                    ELSE dynamicAudioRouter
           /\ streams' = [streams EXCEPT ![i].fetched = TRUE]
    /\ UNCHANGED <<chatVars, authVars, resetVars, fileVars>>

NextStream ==
    \/ \E audio \in Audios : GenerateTtsUri(audio)
    \/ \E i \in 1..MaxStreams : FetchAudio(i)

SpecStream == InitEmpty /\ [][NextStream]_vars

(***************************************************************************)
(* Claims                                                                  *)
(***************************************************************************)
\* C21: every stream URI returned by a TTS-uri request serves, when it is
\* fetched, the audio generated for that same request, also when other
\* stream requests were issued between its creation and its fetch.
\* (The first fetch of each URI is the one looked at.)
C21_UriServesItsOwnAudio ==
    (ret.op = "fetch-audio" /\ ret.first) =>
        (ret.status = 200 /\ ret.body = ret.expected)

(***************************************************************************)
(* SpecReset: POST /auth/forgot-password and POST                          *)
(* /auth/reset-password/:token, two requests at a time.  The reset handler *)
(* awaits userModel.findOne and then user.save(); another request can run  *)
(* between the two.  The clock is in seconds here (Date.now() compared     *)
(* with passwordResetExpires).                                             *)
(*   resets   the reset request each worker handles                        *)
(*   issued   how many reset tokens were drawn                             *)
(*   spent    the tokens a password was saved with, in order (history)     *)
(***************************************************************************)
MaxTokens == 2
SecondsPerHour == 3600
MinPasswordLen == 6

\* Seconds after Now0 at which a request is looked at: the start, a second
\* before an hour has passed, the hour.
ResetInstants == {0, 3599, 3600}

ForgotEmails == {"p1@x.yz", "nobody@x.yz"}
\* req.body.password and req.body.repeatPassword
ResetBodies ==
    {<<"newpw1", "newpw1">>, <<"newpw2", "newpw2">>, <<"newpw1", "newpw2">>,
     <<"short", "short">>}

\* { passwordResetToken: token, passwordResetExpires: { $gt: Date.now() } }
resetTokenMatches(user, token, t) ==
    /\ user.passwordResetToken = token
    /\ user.passwordResetExpires > t

findByResetToken(us, token, t) ==
    {u \in DOMAIN us : resetTokenMatches(us[u], token, t)}

\* The validators of password that user.save() runs (minLength)
passwordValid(password) == Len(password) >= MinPasswordLen

\* The clock moves on to a later instant.
Advance(d) ==
    /\ Now0 * 60 + d > issuedAt(now, sec)
    /\ now' = (Now0 * 60 + d) \div 60
    /\ sec' = (Now0 * 60 + d) % 60
    /\ UNCHANGED <<messages, conversations, nextConv, calls, nreq, ret, users,
                   replaced, serviceVars>>

\* POST /auth/forgot-password
ForgotPassword(email) ==
    /\ issued < MaxTokens
    /\ LET found == findByEmail(users, email)
       IN  IF found = {}
           THEN /\ ret' = [op |-> "forgot-password", status |-> 404,
                           message |-> "User with this email does not exist!",
                           token |-> NoResetToken]
                /\ UNCHANGED <<users, issued>>
           ELSE LET u == CHOOSE x \in found : TRUE
                    token == randomToken(issued + 1)
                IN  /\ users' = [users EXCEPT
                           ![u].passwordResetToken = token,
                           ![u].passwordResetExpires = issuedAt(now, sec) + SecondsPerHour]
                    /\ issued' = issued + 1
                    /\ ret' = [op |-> "forgot-password", status |-> 200,
                               message |-> "Email with password reset instructions sent!",
                               token |-> token]
    /\ UNCHANGED <<chatVars, sec, replaced, streamVars, resets, spent, fileVars>>

\* POST /auth/reset-password/:token up to the first await.  The token is
\* one that was mailed or one that never was (hex 0).
ResetArrives(p, n, body) ==
    /\ resets[p].pc \in {"idle", "done"}
    /\ n \in 0..issued
    /\ LET token == randomToken(n)
       IN  resets' = [resets EXCEPT ![p] =
               IF body[1] # body[2]
               THEN [pc |-> "done", token |-> token, password |-> body[1],
                     repeatPassword |-> body[2], user |-> "",
                     status |-> 400, message |-> "Passwords do not match!",
                     before |-> NoHash]
               ELSE [pc |-> "find", token |-> token, password |-> body[1],
                     repeatPassword |-> body[2], user |-> "",
                     status |-> 0, message |-> "", before |-> NoHash]]
    /\ UNCHANGED <<chatVars, authVars, ret, streamVars, issued, spent, fileVars>>

\* await userModel.findOne({passwordResetToken, passwordResetExpires})
ResetFind(p) ==
    /\ resets[p].pc = "find"
    /\ LET found == findByResetToken(users, resets[p].token, issuedAt(now, sec))
       IN  resets' = [resets EXCEPT ![p] =
               IF found = {}
               THEN [@ EXCEPT !.pc = "done", !.status = 400,
                              !.message = "Invalid or expired password reset token!"]
               ELSE LET u == CHOOSE x \in found : TRUE
                    IN  [@ EXCEPT !.pc = "save", !.user = u,
                                  !.before = users[u].password]]
    /\ UNCHANGED <<chatVars, authVars, ret, streamVars, issued, spent, fileVars>>

\* user.password = password; the two token fields = undefined;
\* await user.save()
ResetSave(p) ==
    /\ resets[p].pc = "save"
    /\ LET r == resets[p]
       IN  IF passwordValid(r.password)
           THEN /\ users' = [users EXCEPT
                       ![r.user].password = Hash(r.password),
                       ![r.user].passwordResetToken = NoResetToken,
                       ![r.user].passwordResetExpires = 0]
                /\ spent' = Append(spent, r.token)
                /\ resets' = [resets EXCEPT ![p] =
                       [@ EXCEPT !.pc = "done", !.status = 200,
                                 !.message = "Password changed successfully!"]]
           ELSE /\ resets' = [resets EXCEPT ![p] =
                       [@ EXCEPT !.pc = "done", !.status = 400,
                                 !.message = "Validation failed."]]
                /\ UNCHANGED <<users, spent>>
    /\ UNCHANGED <<chatVars, sec, replaced, ret, streamVars, issued, fileVars>>

NextReset ==
    \/ \E d \in ResetInstants : Advance(d)
    \/ \E email \in ForgotEmails : ForgotPassword(email)
    \/ \E p \in Procs, n \in 0..MaxTokens, body \in ResetBodies : ResetArrives(p, n, body)
    \/ \E p \in Procs : ResetFind(p)
    \/ \E p \in Procs : ResetSave(p)

SpecReset == InitEmpty /\ [][NextReset]_vars

\* How many times a password was saved with the token
timesSpent(token) == Cardinality({i \in 1..Len(spent) : spent[i] = token})

\* C22: a password reset token changes the password at most once and only
\* before its 1-hour expiry: a reset (its two passwords equal) whose token
\* matches no unexpired token of a user ends with 400 'Invalid or expired
\* password reset token!' and has saved nothing, and no token is spent
\* twice, so after a successful reset the same token is rejected.
C22_ResetTokenSpentAtMostOnce ==
    /\ \A n \in 1..issued : timesSpent(randomToken(n)) <= 1
    /\ timesSpent(randomToken(0)) = 0
    /\ \A p \in Procs :
          (resets[p].pc = "done" /\ resets[p].password = resets[p].repeatPassword
             /\ resets[p].user = "") =>
              /\ resets[p].status = 400
              /\ resets[p].message = "Invalid or expired password reset token!"

(***************************************************************************)
(* Properties of one call of chatWithLexi                                  *)
(***************************************************************************)
\* The positions of a call in the order of the code, and what a call has
\* done when it is at the position
StepOrder ==
    {<<"idle", "newUserMessage">>, <<"done", "newUserMessage">>,
     <<"idle", "done">>, <<"done", "done">>,
     <<"newUserMessage", "appendUser">>, <<"appendUser", "callModel">>,
     <<"callModel", "newAssistantMessage">>,
     <<"newAssistantMessage", "appendAssistant">>, <<"appendAssistant", "done">>,
     <<"newUserMessage", "done">>, <<"appendUser", "done">>, <<"callModel", "done">>,
     <<"newAssistantMessage", "done">>}

HasReply(call) == call.reply # NoCall.reply

\* C23: within one call the steps occur in the order user message
\* persisted, user message appended, context built, model invoked, assistant
\* message persisted, assistant message appended; the model is invoked at
\* most once per call, only after the user turn was appended, and an
\* assistant message is persisted only after the model returned a reply.
C23_StepsInOrder ==
    [][\A p \in Procs :
        LET old == calls[p]
            new == calls'[p]
        IN  /\ old.pc # new.pc => <<old.pc, new.pc>> \in StepOrder
            \* the model is invoked at most once, with the context, after the
            \* user message was persisted and appended
            /\ new.invoked <= 1
            /\ new.invoked > old.invoked =>
                  /\ old.pc = "appendUser" /\ old.userMsg \in DOMAIN messages
                  /\ messages[old.userMsg].role = "user"
                  /\ IsListed(conversations', old.conversationId, old.userMsg)
                  /\ new.context = buildContext(messages, new.updated)
                  /\ old.asstMsg = 0 /\ ~HasReply(old)
            \* a reply comes from the one invocation
            /\ (HasReply(new) /\ ~HasReply(old)) => (old.pc = "callModel" /\ old.invoked = 1)
            \* a message is persisted for the user turn first, and for the
            \* reply only once there is a reply
            /\ new.userMsg # old.userMsg /\ new.pc # "newUserMessage" /\ new.userMsg # 0 =>
                  /\ old.pc = "newUserMessage" /\ old.invoked = 0
                  /\ new.userMsg \in DOMAIN messages' \ DOMAIN messages
            /\ new.asstMsg # old.asstMsg /\ new.asstMsg # 0 =>
                  /\ old.pc = "newAssistantMessage" /\ HasReply(old) /\ old.invoked = 1
                  /\ new.asstMsg \in DOMAIN messages' \ DOMAIN messages
                  /\ messages'[new.asstMsg] = newMessageDoc(old.reply.role, old.reply.content,
                                                           old.conversationId, now)
            \* the reply is appended last
            /\ (new.asstMsg # 0 /\ old.pc # "done"
                  /\ IsListed(conversations', new.conversationId, new.asstMsg)
                  /\ ~IsListed(conversations, new.conversationId, new.asstMsg)) =>
                  (old.pc = "appendAssistant" /\ new.pc = "done")]_vars

\* A call went through all six steps.
C23_Witness ==
    \E p \in Procs :
        /\ calls[p].pc = "done" /\ calls[p].outcome = "ok" /\ calls[p].invoked = 1
        /\ IsListed(conversations, calls[p].conversationId, calls[p].userMsg)
        /\ IsListed(conversations, calls[p].conversationId, calls[p].asstMsg)

\* How many times the list names the message
timesListed(list, messageId) == Cardinality({i \in DOMAIN list : list[i] = messageId})

C25_SweptCallReportsError ==
    \A p \in Procs :
        (/\ Done(p) /\ calls[p].userMsg # 0
         /\ calls[p].conversationId \in 1..(nextConv - 1)
         /\ ~calls[p].alive) =>
            /\ calls[p].outcome # "ok"
            /\ calls[p].status = 500
            /\ calls[p].message = ErrorMessage

\* req.user.userId of the requests a worker handles: the first worker
\* serves the kid k1 and the second the kid k2.
Caller(p) == IF p = 1 THEN "k1" ELSE "k2"

\* C26: a call appends only to a conversation its caller owns: a message
\* persisted by a call is listed by no conversation of another user.
C26_AppendsOnlyToOwnConversation ==
    \A p \in Procs : \A c \in DOMAIN conversations :
        (\E m \in Range(conversations[c].messages) :
              m # 0 /\ m \in {calls[p].userMsg, calls[p].asstMsg})
            => conversations[c].owner = Caller(p)

(***************************************************************************)
(* Properties of the access to the statistics                              *)
(***************************************************************************)
\* The requester is the user the request names, or lists that user as a kid.
IsKidOrParent(requester, kidId) ==
    \/ requester = kidId
    \/ requester \in DOMAIN users /\ kidId \in Range(users[requester].kids)

\* C27: get-stats runs the retention sweep only when the requester is the
\* kid of the request or a parent of that kid and the kid exists; a request
\* by any other user ends with an error and has deleted no conversation.
C27_SweepOnlyForKidOrParent ==
    ret.op = "get-stats" =>
        /\ (ret.swept \/ ret.pc = "sweep" \/ ret.status = 200) =>
              (IsKidOrParent(ret.requester, ret.kid) /\ ret.kid \in DOMAIN users)
        /\ (ret.pc = "done" /\ ~IsKidOrParent(ret.requester, ret.kid)) =>
              /\ ret.status \in {400, 403, 404, 500}
              /\ ~ret.swept
              /\ conversations = ret.atStart

\* The request of a parent for the kid of nobody was denied while a
\* conversation of the kid was old enough to be swept.
C27_Witness ==
    /\ ret.op = "get-stats" /\ ret.pc = "done"
    /\ ret.requester = "p2" /\ ret.kid = "k1"
    /\ ret.status = 403 /\ ret.message = "Access denied."
    /\ \E c \in DOMAIN conversations :
          isSwept(conversations[c], "k1", now, ret.off, RetentionDays)

\* The four window starts of getKidStats for a client at the offset
windowStarts(t, off) ==
    {getStartOfPreviousWeekUTC(t, off), getStartOfCurrentWeekUTC(t, off),
     getStartOfYesterdayUTC(t, off), getStartOfTodayUTC(t, off)}

\* C28: with the retention of 15 days, every window start of a stats fetch
\* made at the time of a sweep or later, from any time zone, is later than
\* the cutoff of the sweep; a conversation the sweep deleted lies before
\* every window, and the four figures of every kid are the same with and
\* without the deleted conversations.
C28_SweptLiesBeforeEveryWindow ==
    (ret.op = "get-stats" /\ ret.swept) =>
        \A off \in TimeOffsets :
            /\ \A start \in windowStarts(now, off) :
                  /\ getDaysBeforeUTC(ret.sweptAt, ret.off, RetentionDays) < start
                  /\ \A c \in DOMAIN ret.before \ DOMAIN conversations :
                        ret.before[c].created_at < start
            /\ \A k \in Kids :
                  kidStatsCounts(ret.before, k, now, off)
                      = kidStatsCounts(conversations, k, now, off)

\* The kid's own request has swept a conversation away and time went on.
C28_Witness ==
    /\ ret.op = "get-stats" /\ ret.swept /\ ret.requester = "k1"
    /\ DOMAIN ret.before # DOMAIN conversations
    /\ now > ret.sweptAt

(***************************************************************************)
(* SpecTurns: chat requests one after the other (the next one arrives when *)
(* the one before is over) on two conversations, with model failures and   *)
(* storage failures.                                                       *)
(***************************************************************************)
NextTurns ==
    \/ \E c \in OwnerConvIds : Request(1, "text", c, Str(1))
    \/ NewUserMessage(1)
    \/ AppendUser(1)
    \/ \E content \in ReplyContents : ModelReplies(1, content)
    \/ \E detail \in ProviderDetails : ModelFails(1, detail)
    \/ NewAssistantMessage(1)
    \/ AppendAssistant(1)
    \/ StorageFails(1)
    \/ Tick

SpecTurns == InitOwners /\ [][NextTurns]_vars

\* The transcript of a conversation: the roles of its messages in the order
\* of their creation (message ids are handed out in creation order, and the
\* list of calls that do not overlap is in that order)
transcript(c) ==
    [i \in DOMAIN conversations[c].messages |-> messages[conversations[c].messages[i]].role]

\* C29: in a conversation built by calls that do not overlap, the
\* chronological transcript does not start with an assistant message and
\* every assistant message comes right after a user message.
C29_AssistantFollowsUser ==
    \A c \in DOMAIN conversations :
        /\ IsChronological(messages, conversations[c].messages)
        /\ \A i, j \in DOMAIN conversations[c].messages :
              i < j => conversations[c].messages[i] < conversations[c].messages[j]
        /\ \A i \in DOMAIN transcript(c) :
              transcript(c)[i] = "assistant" =>
                  (i > 1 /\ transcript(c)[i - 1] = "user")

\* A conversation holds the user message of a call the model failed in,
\* then a complete exchange.
C29_Witness ==
    \E c \in DOMAIN conversations :
        transcript(c) = <<"user", "user", "assistant">>

(***************************************************************************)
(* SpecFiles: POST /files of one user, two requests at a time.  The        *)
(* handler awaits checkStorageCapacity, then the upload to the cloud, then *)
(* addFileToDb (fileModel.create and the $push on the user).               *)
(*   files     the files array of each user                                *)
(*   fileDocs  how many File documents were created                        *)
(*   uploads   the upload each worker handles                              *)
(***************************************************************************)
maxFilesAllowed == 20
MaxUploads == 22

\* The handler up to the first await: a request without a file ends here.
UploadArrives(p, user, hasFile) ==
    /\ uploads[p].pc \in {"idle", "done"}
    /\ fileDocs < MaxUploads
    /\ uploads' = [uploads EXCEPT ![p] =
          IF hasFile
          THEN [NoUpload EXCEPT !.pc = "check", !.user = user]
          ELSE [NoUpload EXCEPT !.pc = "done", !.user = user, !.status = 400,
                                !.message = "No file provided."]]
    /\ UNCHANGED <<chatVars, authVars, ret, streamVars, resetVars, files, fileDocs>>

\* checkStorageCapacity: whether it throws, given the files of the user
checkStorageCapacity(list) == Len(list) >= maxFilesAllowed

\* await storageService.checkStorageCapacity(req.user.userId)
UploadCheck(p) ==
    /\ uploads[p].pc = "check"
    /\ LET list == files[uploads[p].user]
       IN  uploads' = [uploads EXCEPT ![p] =
              IF checkStorageCapacity(list)
              THEN [@ EXCEPT !.pc = "done", !.status = 403, !.seen = Len(list),
                      !.message = "Max storage capacity reached. Please delete a file before uploading a new one."]
              ELSE [@ EXCEPT !.pc = "toCloud", !.seen = Len(list)]]
    /\ UNCHANGED <<chatVars, authVars, ret, streamVars, resetVars, files, fileDocs>>

\* await storageService.uploadFileToS3(file, cloudFolder) resolves
UploadToCloud(p) ==
    /\ uploads[p].pc = "toCloud"
    /\ uploads' = [uploads EXCEPT ![p].pc = "addFileToDb"]
    /\ UNCHANGED <<chatVars, authVars, ret, streamVars, resetVars, files, fileDocs>>

\* await storageService.uploadFileToS3(file, cloudFolder) rejects
UploadToCloudFails(p) ==
    /\ uploads[p].pc = "toCloud"
    /\ uploads' = [uploads EXCEPT ![p].pc = "done", ![p].status = 500,
                                  ![p].message = "Cloud upload error!"]
    /\ UNCHANGED <<chatVars, authVars, ret, streamVars, resetVars, files, fileDocs>>

\* addFileToDb: fileModel.create(...) and the $push of its _id on the user
\* (nothing the two writes depend on lies between them), then
\* res.status(200).json(newFile)
UploadAddFileToDb(p) ==
    /\ uploads[p].pc = "addFileToDb"
    /\ fileDocs' = fileDocs + 1
    /\ files' = [files EXCEPT ![uploads[p].user] = Append(@, fileDocs + 1)]
    /\ uploads' = [uploads EXCEPT ![p].pc = "done", ![p].status = 200,
                                  ![p].file = fileDocs + 1]
    /\ UNCHANGED <<chatVars, authVars, ret, streamVars, resetVars>>

NextFiles ==
    \/ \E p \in Procs, user \in Uploaders, hasFile \in BOOLEAN : UploadArrives(p, user, hasFile)
    \/ \E p \in Procs : UploadCheck(p)
    \/ \E p \in Procs : UploadToCloud(p)
    \/ \E p \in Procs : UploadToCloudFails(p)
    \/ \E p \in Procs : UploadAddFileToDb(p)

SpecFiles == InitEmpty /\ [][NextFiles]_vars

\* C30: a user never has more than 20 stored files, also when uploads of
\* the user run concurrently, and an upload that finds 20 files is rejected
\* with 403.
C30_AtMostTwentyFiles ==
    /\ \A u \in DOMAIN files : Len(files[u]) <= 20
    /\ \A p \in Procs :
          (uploads[p].pc \in {"toCloud", "addFileToDb", "done"} /\ uploads[p].seen >= 20)
              => (uploads[p].pc = "done" /\ uploads[p].status = 403)

====
